---- MODULE Spec2Model ----
(***************************************************************************)
(* A model of the specgen pipeline: the project-context store and its      *)
(* versions (src/lib/database.ts, src/lib/projectContext.ts), the LLM      *)
(* configuration manager and its IndexedDB mirror (src/lib/llm/config.ts), *)
(* and the generation flow of the page with the completion calls           *)
(* (src/app/page.tsx, src/lib/llm.ts, src/lib/llm/adapters.ts).            *)
(*                                                                         *)
(* Every `await` of the source is a point where another task may run, so   *)
(* each handler is cut into steps at its store reads and writes; one idb   *)
(* call (get, getAll, put, add, delete) is one transaction and one step.   *)
(***************************************************************************)
EXTENDS Naturals, Integers, Sequences, FiniteSets, TLC

(***************************************************************************)
(* Bounds of the model.                                                    *)
(***************************************************************************)
MaxContexts == 3
MaxOps == 2
MaxOverlappingOps == 2
MaxRequests == 2        \* submissions of the input form
TimeoutTicks == 2       \* the `timeout` option of a completion call, in clock ticks
MaxStall == 2           \* ticks a backend may stall after the timer has been cleared
MaxRenders == 2         \* calls of TemplateEngine.render
MaxDays == 2            \* days the clock shows while the engine lives
MaxMessages == 3        \* messages of a completion request

(***************************************************************************)
(* Generic helpers.                                                        *)
(***************************************************************************)
Range(s) == {s[i] : i \in 1..Len(s)}

RECURSIVE SeqMax(_)
SeqMax(s) == IF Len(s) = 0 THEN 0
             ELSE LET m == SeqMax(Tail(s)) IN IF Head(s) > m THEN Head(s) ELSE m

VARIABLES
    project_contexts,   \* object store 'project_contexts', in insertion order
    ctxTask,            \* per caller: the context-store call in flight and its locals
    everActivated       \* projects for which an activating call has completed

ctxVars == <<project_contexts, ctxTask, everActivated>>

VARIABLES
    llm_configs,        \* object store 'llm_configs', in the order of its by-updated index
    configs,            \* LLMConfigManager.configs (a Map, in insertion order)
    activeConfigId,     \* LLMConfigManager.activeConfigId
    adapters,           \* LLMConfigManager.adapters (the adapter cache)
    initialized,        \* LLMConfigManager.initialized
    mgrTask,            \* per task: the manager call in flight and its locals
    loadsStarted,       \* how many times loadConfigurations was started
    opsBegun            \* how many manager operations the callers have invoked

mgrVars == <<llm_configs, configs, activeConfigId, adapters, initialized, mgrTask,
             loadsStarted, opsBegun>>

VARIABLES
    spec_inputs,        \* object store 'spec_inputs', in insertion order
    spec_outputs,       \* object store 'spec_outputs', in insertion order
    ui,                 \* the state of the page (useState of Home)
    flow,               \* the page handler in flight and its locals
    call,               \* the completion call in flight, or the last one made
    submissions,        \* how many times the input form was submitted
    resolved            \* the last resolveContext call: its arguments, locals and result

genVars == <<spec_inputs, spec_outputs, ui, flow, call, submissions, resolved>>

VARIABLES
    scored,             \* the last description scored: its text, context and scores
    today,              \* the day the clock shows, counted from the first
    templateCache,      \* TemplateEngine.templateCache (cache key -> rendered text)
    rendered,           \* the last render call: its arguments, the day and its result
    renders,            \* how many times render was called
    requestBody,        \* the last request the Anthropic adapter built, with its input
    previousActive      \* what the manager instance before the current one reported as active

libVars == <<scored, today, templateCache, rendered, renders, requestBody, previousActive>>

(***************************************************************************)
(* The project-context store.                                              *)
(***************************************************************************)
Projects == {"P1", "P2"}
ContextValues == {"ctxA", "ctxB"}
CtxProcs == {"t1", "t2"}

\* IndexedDB returns the records whose index key equals the queried key.
KeyMatches(indexKey, query) == indexKey = query

byProjectActive(c) == <<c.project_id, c.is_active>>

byProjectCreated(c) == <<c.project_id, c.created_at>>

\* The key of record c in the named index of its object store.
IndexKey(indexName, c) ==
    CASE indexName = "by-project-active" -> byProjectActive(c)
      [] indexName = "by-project-created" -> byProjectCreated(c)

getAllFromIndex(store, indexName, query) ==
    SelectSeq(store, LAMBDA c : KeyMatches(IndexKey(indexName, c), query))

\* A query that leaves the is_active component out of the key.
getActiveContextsByProjectOnly(store, projectId) ==
    getAllFromIndex(store, "by-project-active", <<projectId>>)

getActiveContexts(store, projectId) ==
    getAllFromIndex(store, "by-project-active", <<projectId, 1>>)

\* getProjectContexts queries the compound index by-project-created with the
\* one-element key [projectId].
getProjectContexts(store, projectId) ==
    getAllFromIndex(store, "by-project-created", <<projectId>>)

getContext(store, contextId) ==
    SelectSeq(store, LAMBDA c : c.id = contextId)

\* db.put: replace the record that has the same primary key, else append.
putContext(store, rec) ==
    IF \E i \in 1..Len(store) : store[i].id = rec.id
    THEN [i \in 1..Len(store) |-> IF store[i].id = rec.id THEN rec ELSE store[i]]
    ELSE Append(store, rec)

nextVersion(existingContexts) ==
    IF Len(existingContexts) > 0
    THEN SeqMax([i \in 1..Len(existingContexts) |-> existingContexts[i].version]) + 1
    ELSE 1

ActiveCount(store, projectId) ==
    Cardinality({i \in 1..Len(store) :
                    store[i].project_id = projectId /\ store[i].is_active = 1})

VersionCount(store, projectId) ==
    Cardinality({i \in 1..Len(store) : store[i].project_id = projectId})

\* The context-store calls touch nothing but the context store.
CtxFrame == UNCHANGED <<mgrVars, genVars, libVars>>

IdleCtxTask ==
    [pc |-> "idle", op |-> "none", project_id |-> "P1", context_json |-> "ctxA",
     is_active |-> 0, contextId |-> 0, version |-> 0, existingContexts |-> <<>>,
     activeContexts |-> <<>>, context |-> <<>>, ret |-> "idle", result |-> "none"]

CtxInFlight == {p \in CtxProcs : ctxTask[p].pc # "idle"}

CreatesInFlight == {p \in CtxProcs : ctxTask[p].pc # "idle" /\ ctxTask[p].op = "create"}

\* ProjectContextService.createProjectContext is called.
\* It may overlap only calls whose kind is not in blockedBy.
BeginCreateVersion(p, blockedBy) ==
    /\ CtxFrame
    /\ ctxTask[p].pc = "idle"
    /\ \A q \in CtxInFlight : ctxTask[q].op \notin blockedBy
    /\ Len(project_contexts) + Cardinality(CreatesInFlight) < MaxContexts
    /\ \E pid \in Projects, c \in ContextValues, act \in BOOLEAN :
          ctxTask' = [ctxTask EXCEPT ![p] =
              [IdleCtxTask EXCEPT !.pc = "cv_list", !.op = "create", !.project_id = pid,
                                  !.context_json = c, !.is_active = IF act THEN 1 ELSE 0]]
    /\ UNCHANGED <<project_contexts, everActivated>>

\* const existingContexts = await dbService.getProjectContexts(projectId)
CreateVersionList(p) ==
    /\ CtxFrame
    /\ ctxTask[p].pc = "cv_list"
    /\ LET existing == getProjectContexts(project_contexts, ctxTask[p].project_id) IN
          ctxTask' = [ctxTask EXCEPT ![p].existingContexts = existing,
                                     ![p].version = nextVersion(existing),
                                     ![p].pc = IF ctxTask[p].is_active = 1
                                               THEN "deact_read" ELSE "cv_add",
                                     ![p].ret = "cv_add"]
    /\ UNCHANGED <<project_contexts, everActivated>>

\* deactivateProjectContexts: const activeContexts = await getAllFromIndex(...)
DeactivateRead(p) ==
    /\ CtxFrame
    /\ ctxTask[p].pc = "deact_read"
    /\ LET actives == getActiveContexts(project_contexts, ctxTask[p].project_id) IN
          ctxTask' = [ctxTask EXCEPT ![p].activeContexts = actives,
                                     ![p].pc = IF Len(actives) = 0
                                               THEN ctxTask[p].ret ELSE "deact_put"]
    /\ UNCHANGED <<project_contexts, everActivated>>

\* deactivateProjectContexts: context.is_active = 0; await db.put(context)
DeactivatePut(p) ==
    /\ CtxFrame
    /\ ctxTask[p].pc = "deact_put"
    /\ LET rec == [Head(ctxTask[p].activeContexts) EXCEPT !.is_active = 0]
           rest == Tail(ctxTask[p].activeContexts) IN
          /\ project_contexts' = putContext(project_contexts, rec)
          /\ ctxTask' = [ctxTask EXCEPT ![p].activeContexts = rest,
                                        ![p].pc = IF Len(rest) = 0
                                                  THEN ctxTask[p].ret ELSE "deact_put"]
    /\ UNCHANGED everActivated

\* DatabaseService.createProjectContext: await db.add('project_contexts', context)
CreateVersionAdd(p) ==
    /\ CtxFrame
    /\ ctxTask[p].pc = "cv_add"
    /\ LET newId == Len(project_contexts) + 1
           rec == [id |-> newId, project_id |-> ctxTask[p].project_id,
                   context_json |-> ctxTask[p].context_json,
                   version |-> ctxTask[p].version,
                   is_active |-> ctxTask[p].is_active, created_at |-> newId] IN
          /\ project_contexts' = Append(project_contexts, rec)
          /\ ctxTask' = [ctxTask EXCEPT ![p] = [IdleCtxTask EXCEPT !.result = "ok"]]
          /\ everActivated' = IF ctxTask[p].is_active = 1
                              THEN everActivated \cup {ctxTask[p].project_id}
                              ELSE everActivated

\* ProjectContextService.activateContextVersion(contextId) is called.
BeginActivateVersion(p, blockedBy) ==
    /\ CtxFrame
    /\ ctxTask[p].pc = "idle"
    /\ \A q \in CtxInFlight : ctxTask[q].op \notin blockedBy
    /\ \E cid \in 1..MaxContexts :
          ctxTask' = [ctxTask EXCEPT ![p] =
              [IdleCtxTask EXCEPT !.pc = "av_get", !.op = "activate", !.contextId = cid]]
    /\ UNCHANGED <<project_contexts, everActivated>>

\* const context = await db.get(...); if (!context) throw new Error('Context not found')
ActivateVersionGet(p) ==
    /\ CtxFrame
    /\ ctxTask[p].pc = "av_get"
    /\ LET found == getContext(project_contexts, ctxTask[p].contextId) IN
          ctxTask' = [ctxTask EXCEPT ![p] =
              IF Len(found) = 0
              THEN [IdleCtxTask EXCEPT !.result = "Context not found"]
              ELSE [ctxTask[p] EXCEPT !.context = found, !.project_id = found[1].project_id,
                                      !.pc = "deact_read", !.ret = "av_put"]]
    /\ UNCHANGED <<project_contexts, everActivated>>

\* context.is_active = 1; await db.put('project_contexts', context)
ActivateVersionPut(p) ==
    /\ CtxFrame
    /\ ctxTask[p].pc = "av_put"
    /\ project_contexts' =
          putContext(project_contexts, [ctxTask[p].context[1] EXCEPT !.is_active = 1])
    /\ ctxTask' = [ctxTask EXCEPT ![p] = [IdleCtxTask EXCEPT !.result = "ok"]]
    /\ everActivated' = everActivated \cup {ctxTask[p].project_id}

CtxStep(p) ==
    \/ CreateVersionList(p)
    \/ DeactivateRead(p)
    \/ DeactivatePut(p)
    \/ CreateVersionAdd(p)
    \/ ActivateVersionGet(p)
    \/ ActivateVersionPut(p)


(***************************************************************************)
(* The configuration manager and the configuration store.                  *)
(***************************************************************************)
NullId == "null"
DefaultConfigId == "lmstudio-local"
ConfigIds == {"lmstudio-local", "anthropic-1"}

\* ConfigIds in the order of the primary key (string order).
ConfigIdOrder == <<"anthropic-1", "lmstudio-local">>

\* PREDEFINED_CONFIGS['lmstudio-local']
LMStudioLocal ==
    [provider |-> "lmstudio", base_url |-> "http://localhost:1234", model |-> "local-model"]

AnthropicClaude ==
    [provider |-> "anthropic", base_url |-> "https://api.anthropic.com",
     model |-> "claude-sonnet-4-20250514"]

UnknownProviderConfig ==
    [provider |-> "azure", base_url |-> "https://example.invalid", model |-> "m"]

ConfigInputs == {AnthropicClaude, UnknownProviderConfig}

\* LLMConfigSchema: a discriminated union over the four providers.
LLMConfigSchemaAccepts(config) ==
    config.provider \in {"openai", "anthropic", "lmstudio", "ollama"}

Callers == {"u1", "u2"}
Initiators == Callers \cup {"ctor"}
BgOf(p) == CASE p = "ctor" -> "bg_ctor" [] p = "u1" -> "bg_u1" [] p = "u2" -> "bg_u2"
BgTasks == {BgOf(p) : p \in Initiators}
MgrProcs == Initiators \cup BgTasks

NoUpdates ==
    [has_config |-> FALSE, config_json |-> LMStudioLocal, has_active |-> FALSE, is_active |-> 0]

IdleMgrTask ==
    [pc |-> "idle", op |-> "none", id |-> NullId, config |-> LMStudioLocal,
     isActive |-> FALSE, configRecords |-> <<>>, allConfigs |-> <<>>,
     activeConfigs |-> <<>>, existing |-> <<>>, updId |-> NullId, updates |-> NoUpdates,
     afterDeact |-> "end", afterUpd |-> "end", result |-> "none",
     preActiveRecords |-> {}]

MgrInFlight == {p \in MgrProcs : mgrTask[p].pc # "idle"}

ConfigKeys(cfgs) == {cfgs[i].id : i \in 1..Len(cfgs)}

\* A lookup that accepts every id.
hasConfigAlways(cfgs, id) == TRUE

\* this.configs.has(id)
hasConfig(cfgs, id) == id \in ConfigKeys(cfgs)

\* A map that ignores what is set.
setConfigIgnored(cfgs, id, config) == cfgs

\* this.configs.set(id, config): a Map keeps the position of a key it has.
setConfig(cfgs, id, config) ==
    IF hasConfig(cfgs, id)
    THEN [i \in 1..Len(cfgs) |-> IF cfgs[i].id = id THEN [id |-> id, config |-> config]
                                                    ELSE cfgs[i]]
    ELSE Append(cfgs, [id |-> id, config |-> config])

\* this.configs.delete(id)
deleteConfig(cfgs, id) == SelectSeq(cfgs, LAMBDA c : c.id # id)

getConfigOf(cfgs, id) == (CHOOSE i \in 1..Len(cfgs) : cfgs[i].id = id)

\* this.adapters.delete(id)
deleteAdapter(cache, id) == {a \in cache : a.id # id}

\* db.get('llm_configs', id): <<>> when there is no such record.
getLLMConfig(store, id) == SelectSeq(store, LAMBDA r : r.id = id)

\* getAllFromIndex('llm_configs', 'by-active', 1), in primary-key order.
getActiveLLMConfigs(store) ==
    LET ids == SelectSeq(ConfigIdOrder,
                         LAMBDA k : \E i \in 1..Len(store) :
                                        store[i].id = k /\ store[i].is_active = 1)
    IN [j \in 1..Len(ids) |-> getLLMConfig(store, ids[j])[1]]

\* db.put with updated_at: new Date(): the record becomes the last of by-updated.
putLLMConfig(store, rec) == Append(SelectSeq(store, LAMBDA r : r.id # rec.id), rec)

\* db.delete('llm_configs', id)
deleteLLMConfig(store, id) == SelectSeq(store, LAMBDA r : r.id # id)

\* {...config, ...updates}
applyUpdates(rec, updates) ==
    [id |-> rec.id,
     config_json |-> IF updates.has_config THEN updates.config_json ELSE rec.config_json,
     is_active |-> IF updates.has_active THEN updates.is_active ELSE rec.is_active]

ActiveRecordIds(store) == {store[i].id : i \in {j \in 1..Len(store) : store[j].is_active = 1}}

\* loadConfigurations: the loop over the records read from the store.
RECURSIVE loadedConfigs(_, _)
loadedConfigs(cfgs, records) ==
    IF Len(records) = 0 THEN cfgs
    ELSE loadedConfigs(
            IF LLMConfigSchemaAccepts(Head(records).config_json)
            THEN setConfig(cfgs, Head(records).id, Head(records).config_json)
            ELSE cfgs,
            Tail(records))

RECURSIVE loadedActiveId(_, _)
loadedActiveId(active, records) ==
    IF Len(records) = 0 THEN active
    ELSE loadedActiveId(
            IF LLMConfigSchemaAccepts(Head(records).config_json) /\ Head(records).is_active = 1
            THEN Head(records).id ELSE active,
            Tail(records))

\* A task's call ends: it returns or throws to its caller.
finished(task, result) ==
    IF task.op = "bgsave" THEN IdleMgrTask
    ELSE [IdleMgrTask EXCEPT !.result = result, !.op = task.op]

\* setActiveConfiguration's loop over allConfigs: the next record read as active
\* is deactivated; after the last one the selected configuration is activated.
RECURSIVE nextDeactivation(_)
nextDeactivation(task) ==
    IF Len(task.allConfigs) = 0
    THEN [task EXCEPT !.pc = "upd_get", !.updId = task.id,
                      !.updates = [NoUpdates EXCEPT !.has_active = TRUE, !.is_active = 1],
                      !.afterUpd = "end"]
    ELSE IF Head(task.allConfigs).is_active = 1
         THEN [task EXCEPT !.pc = "upd_get", !.updId = Head(task.allConfigs).id,
                           !.updates = [NoUpdates EXCEPT !.has_active = TRUE, !.is_active = 0],
                           !.afterUpd = "sa_loop", !.allConfigs = Tail(task.allConfigs)]
         ELSE nextDeactivation([task EXCEPT !.allConfigs = Tail(task.allConfigs)])

\* Where a task goes when its updateLLMConfig call has returned.
afterUpdate(task) ==
    IF task.afterUpd = "sa_loop" THEN nextDeactivation(task) ELSE finished(task, "ok")

\* The manager calls touch nothing but the manager and the configuration store.
MgrFrame == UNCHANGED <<ctxVars, genVars, libVars>>

\* A caller invokes an operation of the manager; `exclusive` callers await
\* each call before the next one. No caller can await the initialization the
\* constructor started or the save of the default configuration: neither
\* promise is returned to anyone. The callers are interchangeable: u1 is the
\* one that calls first.
BeginOperation(p, exclusive, op, id, config) ==
    /\ mgrTask[p].pc = "idle"
    /\ exclusive => MgrInFlight \cap Callers = {}
    /\ p = "u2" => mgrTask["u1"].op # "none"
    /\ opsBegun < (IF exclusive THEN MaxOps ELSE MaxOverlappingOps)
    /\ opsBegun' = opsBegun + 1
    /\ mgrTask' = [mgrTask EXCEPT ![p] =
          [IdleMgrTask EXCEPT !.pc = "ensure", !.op = op, !.id = id, !.config = config,
                              !.preActiveRecords =
                                  IF op = "setActiveConfiguration"
                                  THEN ActiveRecordIds(llm_configs) ELSE {}]]
    /\ UNCHANGED <<llm_configs, configs, activeConfigId, adapters, initialized, loadsStarted>>
    /\ MgrFrame

\* A configuration the schema rejects is rejected whatever its id.
BeginAddConfiguration(p, exclusive) ==
    \E id \in ConfigIds, config \in ConfigInputs :
        /\ ~LLMConfigSchemaAccepts(config) => id = DefaultConfigId
        /\ BeginOperation(p, exclusive, "addConfiguration", id, config)

BeginRemoveConfiguration(p, exclusive) ==
    \E id \in ConfigIds : BeginOperation(p, exclusive, "removeConfiguration", id, LMStudioLocal)

BeginSetActiveConfiguration(p, exclusive) ==
    \E id \in ConfigIds : BeginOperation(p, exclusive, "setActiveConfiguration", id, LMStudioLocal)

\* getAdapter(configId?): without an id, or with the id of a configuration that
\* is not the default one.
BeginGetAdapter(p, exclusive) ==
    \E id \in (ConfigIds \ {DefaultConfigId}) \cup {NullId} :
        BeginOperation(p, exclusive, "getAdapter", id, LMStudioLocal)

bodyOf(op) ==
    CASE op = "addConfiguration" -> "add_body"
      [] op = "removeConfiguration" -> "rm_body"
      [] op = "setActiveConfiguration" -> "sa_check"
      [] op = "getAdapter" -> "ga_body"

\* ensureInitialized: if (!this.initialized) await this.initializeAsync(), which
\* runs up to loadConfigurations' first await.
ensureInitialized(p) ==
    /\ mgrTask[p].pc = "ensure"
    /\ IF initialized
       THEN /\ mgrTask' = [mgrTask EXCEPT ![p].pc = bodyOf(mgrTask[p].op)]
            /\ UNCHANGED loadsStarted
       ELSE /\ mgrTask' = [mgrTask EXCEPT ![p].pc = "init_read"]
            /\ loadsStarted' = loadsStarted + 1
    /\ UNCHANGED <<llm_configs, configs, activeConfigId, adapters, initialized, opsBegun>>
    /\ MgrFrame

\* loadConfigurations: const configRecords = await dbService.getAllLLMConfigs()
loadConfigurationsRead(p) ==
    /\ mgrTask[p].pc = "init_read"
    /\ mgrTask' = [mgrTask EXCEPT ![p].configRecords = llm_configs, ![p].pc = "init_apply"]
    /\ UNCHANGED <<llm_configs, configs, activeConfigId, adapters, initialized,
                   loadsStarted, opsBegun>>
    /\ MgrFrame

\* loadConfigurations: the loop over configRecords, then addDefaultConfiguration
\* if no configuration is held; the default's save is started and not awaited.
loadConfigurationsApply(p) ==
    /\ mgrTask[p].pc = "init_apply"
    /\ LET loaded == loadedConfigs(configs, mgrTask[p].configRecords)
           active == loadedActiveId(activeConfigId, mgrTask[p].configRecords)
       IN IF Len(loaded) = 0
          THEN /\ configs' = setConfig(loaded, DefaultConfigId, LMStudioLocal)
               /\ activeConfigId' = DefaultConfigId
               /\ mgrTask' = [mgrTask EXCEPT
                     ![p].pc = "init_done", ![p].configRecords = <<>>,
                     ![BgOf(p)] = [IdleMgrTask EXCEPT !.pc = "save_get", !.op = "bgsave",
                                                      !.id = DefaultConfigId,
                                                      !.config = LMStudioLocal,
                                                      !.isActive = TRUE]]
          ELSE /\ configs' = loaded
               /\ activeConfigId' = active
               /\ mgrTask' = [mgrTask EXCEPT ![p].pc = "init_done", ![p].configRecords = <<>>]
    /\ UNCHANGED <<llm_configs, adapters, initialized, loadsStarted, opsBegun>>
    /\ MgrFrame

\* initializeAsync: this.initialized = true
initializeAsyncDone(p) ==
    /\ mgrTask[p].pc = "init_done"
    /\ initialized' = TRUE
    /\ mgrTask' = [mgrTask EXCEPT ![p] =
          IF p = "ctor" THEN finished(mgrTask[p], "ok")
          ELSE [mgrTask[p] EXCEPT !.pc = bodyOf(mgrTask[p].op)]]
    /\ UNCHANGED <<llm_configs, configs, activeConfigId, adapters, loadsStarted, opsBegun>>
    /\ MgrFrame

\* addConfiguration: parse, configs.set, adapters.delete, then saveConfigurationToDb
addConfigurationBody(p) ==
    /\ mgrTask[p].pc = "add_body"
    /\ IF LLMConfigSchemaAccepts(mgrTask[p].config)
       THEN /\ configs' = setConfig(configs, mgrTask[p].id, mgrTask[p].config)
            /\ adapters' = deleteAdapter(adapters, mgrTask[p].id)
            /\ mgrTask' = [mgrTask EXCEPT ![p].pc = "save_get", ![p].isActive = FALSE]
       ELSE /\ mgrTask' = [mgrTask EXCEPT ![p] = finished(mgrTask[p], "ZodError")]
            /\ UNCHANGED <<configs, adapters>>
    /\ UNCHANGED <<llm_configs, activeConfigId, initialized, loadsStarted, opsBegun>>
    /\ MgrFrame

\* saveConfigurationToDb: const existingConfig = await dbService.getLLMConfig(id),
\* then updateLLMConfig or createLLMConfig with is_active: isActive ? 1 : 0
saveConfigurationToDbGet(p) ==
    /\ mgrTask[p].pc = "save_get"
    /\ LET t == mgrTask[p]
           flag == IF t.isActive THEN 1 ELSE 0
       IN mgrTask' = [mgrTask EXCEPT ![p] =
            IF Len(getLLMConfig(llm_configs, t.id)) > 0
            THEN [t EXCEPT !.pc = "upd_get", !.updId = t.id, !.afterUpd = "end",
                           !.updates = [has_config |-> TRUE, config_json |-> t.config,
                                        has_active |-> TRUE, is_active |-> flag]]
            ELSE [t EXCEPT !.pc = IF t.isActive THEN "deact_read" ELSE "create_add",
                           !.afterDeact = "create_add"]]
    /\ UNCHANGED <<llm_configs, configs, activeConfigId, adapters, initialized,
                   loadsStarted, opsBegun>>
    /\ MgrFrame

\* updateLLMConfig: const config = await this.getLLMConfig(id); a missing record
\* throws, and the callers' try/catch logs the error and ends the store update.
updateLLMConfigGet(p) ==
    /\ mgrTask[p].pc = "upd_get"
    /\ LET t == mgrTask[p]
           found == getLLMConfig(llm_configs, t.updId)
       IN mgrTask' = [mgrTask EXCEPT ![p] =
            IF Len(found) = 0 THEN finished(t, "ok, store error logged")
            ELSE [t EXCEPT !.existing = found,
                           !.afterDeact = "upd_put",
                           !.pc = IF t.updates.has_active /\ t.updates.is_active = 1
                                  THEN "deact_read" ELSE "upd_put"]]
    /\ UNCHANGED <<llm_configs, configs, activeConfigId, adapters, initialized,
                   loadsStarted, opsBegun>>
    /\ MgrFrame

\* deactivateLLMConfigs: const activeConfigs = await getAllFromIndex('by-active', 1)
deactivateLLMConfigsRead(p) ==
    /\ mgrTask[p].pc = "deact_read"
    /\ LET actives == getActiveLLMConfigs(llm_configs) IN
          mgrTask' = [mgrTask EXCEPT ![p].activeConfigs = actives,
                                     ![p].pc = IF Len(actives) = 0
                                               THEN mgrTask[p].afterDeact ELSE "deact_put"]
    /\ UNCHANGED <<llm_configs, configs, activeConfigId, adapters, initialized,
                   loadsStarted, opsBegun>>
    /\ MgrFrame

\* deactivateLLMConfigs: config.is_active = 0; await db.put('llm_configs', config)
deactivateLLMConfigsPut(p) ==
    /\ mgrTask[p].pc = "deact_put"
    /\ LET rec == [Head(mgrTask[p].activeConfigs) EXCEPT !.is_active = 0]
           rest == Tail(mgrTask[p].activeConfigs) IN
          /\ llm_configs' = putLLMConfig(llm_configs, rec)
          /\ mgrTask' = [mgrTask EXCEPT ![p].activeConfigs = rest,
                                        ![p].pc = IF Len(rest) = 0
                                                  THEN mgrTask[p].afterDeact ELSE "deact_put"]
    /\ UNCHANGED <<configs, activeConfigId, adapters, initialized, loadsStarted, opsBegun>>
    /\ MgrFrame

\* updateLLMConfig: await db.put('llm_configs', {...config, ...updates, updated_at})
updateLLMConfigPut(p) ==
    /\ mgrTask[p].pc = "upd_put"
    /\ llm_configs' = putLLMConfig(llm_configs,
                                   applyUpdates(mgrTask[p].existing[1], mgrTask[p].updates))
    /\ mgrTask' = [mgrTask EXCEPT ![p] = afterUpdate(mgrTask[p])]
    /\ UNCHANGED <<configs, activeConfigId, adapters, initialized, loadsStarted, opsBegun>>
    /\ MgrFrame

\* createLLMConfig: await db.add('llm_configs', config); add rejects a key the
\* store holds already, which saveConfigurationToDb logs.
createLLMConfigAdd(p) ==
    /\ mgrTask[p].pc = "create_add"
    /\ LET t == mgrTask[p] IN
          IF Len(getLLMConfig(llm_configs, t.id)) > 0
          THEN /\ mgrTask' = [mgrTask EXCEPT ![p] = finished(t, "ok, store error logged")]
               /\ UNCHANGED llm_configs
          ELSE /\ llm_configs' = Append(llm_configs,
                                        [id |-> t.id, config_json |-> t.config,
                                         is_active |-> IF t.isActive THEN 1 ELSE 0])
               /\ mgrTask' = [mgrTask EXCEPT ![p] = finished(t, "ok")]
    /\ UNCHANGED <<configs, activeConfigId, adapters, initialized, loadsStarted, opsBegun>>
    /\ MgrFrame

\* removeConfiguration: configs.delete(id); adapters.delete(id)
removeConfigurationBody(p) ==
    /\ mgrTask[p].pc = "rm_body"
    /\ configs' = deleteConfig(configs, mgrTask[p].id)
    /\ adapters' = deleteAdapter(adapters, mgrTask[p].id)
    /\ mgrTask' = [mgrTask EXCEPT ![p].pc = "rm_delete"]
    /\ UNCHANGED <<llm_configs, activeConfigId, initialized, loadsStarted, opsBegun>>
    /\ MgrFrame

\* removeConfiguration: await dbService.deleteLLMConfig(id)
removeConfigurationDelete(p) ==
    /\ mgrTask[p].pc = "rm_delete"
    /\ llm_configs' = deleteLLMConfig(llm_configs, mgrTask[p].id)
    /\ mgrTask' = [mgrTask EXCEPT ![p].pc = "rm_promote"]
    /\ UNCHANGED <<configs, activeConfigId, adapters, initialized, loadsStarted, opsBegun>>
    /\ MgrFrame

\* removeConfiguration: if the removed id was active, the first remaining
\* configuration is set active, or the active id becomes null.
removeConfigurationPromote(p) ==
    /\ mgrTask[p].pc = "rm_promote"
    /\ LET t == mgrTask[p] IN
          IF activeConfigId = t.id
          THEN IF Len(configs) > 0
               THEN /\ mgrTask' = [mgrTask EXCEPT ![p].pc = "sa_check",
                                                  ![p].id = configs[1].id]
                    /\ UNCHANGED activeConfigId
               ELSE /\ activeConfigId' = NullId
                    /\ mgrTask' = [mgrTask EXCEPT ![p] = finished(t, "ok")]
          ELSE /\ mgrTask' = [mgrTask EXCEPT ![p] = finished(t, "ok")]
               /\ UNCHANGED activeConfigId
    /\ UNCHANGED <<llm_configs, configs, adapters, initialized, loadsStarted, opsBegun>>
    /\ MgrFrame

\* setActiveConfiguration: if (!this.configs.has(id)) throw ...; this.activeConfigId = id
setActiveConfigurationCheck(p) ==
    /\ mgrTask[p].pc = "sa_check"
    /\ IF hasConfig(configs, mgrTask[p].id)
       THEN /\ activeConfigId' = mgrTask[p].id
            /\ mgrTask' = [mgrTask EXCEPT ![p].pc = "sa_list"]
       ELSE /\ mgrTask' = [mgrTask EXCEPT ![p] = finished(mgrTask[p], "ConfigurationNotFound")]
            /\ UNCHANGED activeConfigId
    /\ UNCHANGED <<llm_configs, configs, adapters, initialized, loadsStarted, opsBegun>>
    /\ MgrFrame

\* setActiveConfiguration: const allConfigs = await dbService.getAllLLMConfigs()
setActiveConfigurationList(p) ==
    /\ mgrTask[p].pc = "sa_list"
    /\ mgrTask' = [mgrTask EXCEPT ![p] =
          nextDeactivation([mgrTask[p] EXCEPT !.allConfigs = llm_configs])]
    /\ UNCHANGED <<llm_configs, configs, activeConfigId, adapters, initialized,
                   loadsStarted, opsBegun>>
    /\ MgrFrame

\* getAdapter: the cached adapter of configId || activeConfigId, built on a miss
getAdapterBody(p) ==
    /\ mgrTask[p].pc = "ga_body"
    /\ LET t == mgrTask[p]
           id == IF t.id # NullId THEN t.id ELSE activeConfigId
       IN IF id = NullId
          THEN /\ mgrTask' = [mgrTask EXCEPT ![p] = finished(t, "NoActiveConfiguration")]
               /\ UNCHANGED adapters
          ELSE IF ~hasConfig(configs, id)
          THEN /\ mgrTask' = [mgrTask EXCEPT ![p] = finished(t, "ConfigurationNotFound")]
               /\ UNCHANGED adapters
          ELSE /\ mgrTask' = [mgrTask EXCEPT ![p] = finished(t, "ok")]
               /\ adapters' = IF \E a \in adapters : a.id = id THEN adapters
                              ELSE adapters \cup
                                   {[id |-> id, config |-> configs[getConfigOf(configs, id)].config]}
    /\ UNCHANGED <<llm_configs, configs, activeConfigId, initialized, loadsStarted, opsBegun>>
    /\ MgrFrame

MgrStep(p) ==
    \/ ensureInitialized(p)
    \/ loadConfigurationsRead(p)
    \/ loadConfigurationsApply(p)
    \/ initializeAsyncDone(p)
    \/ addConfigurationBody(p)
    \/ saveConfigurationToDbGet(p)
    \/ updateLLMConfigGet(p)
    \/ deactivateLLMConfigsRead(p)
    \/ deactivateLLMConfigsPut(p)
    \/ updateLLMConfigPut(p)
    \/ createLLMConfigAdd(p)
    \/ removeConfigurationBody(p)
    \/ removeConfigurationDelete(p)
    \/ removeConfigurationPromote(p)
    \/ setActiveConfigurationCheck(p)
    \/ setActiveConfigurationList(p)
    \/ getAdapterBody(p)

\* After construction in the browser: the constructor has called
\* initializeAsync, which is suspended at loadConfigurations' first await.
InitMgrVars ==
    /\ llm_configs = <<>>
    /\ configs = <<>>
    /\ activeConfigId = NullId
    /\ adapters = {}
    /\ initialized = FALSE
    /\ mgrTask = [p \in MgrProcs |->
                    IF p = "ctor" THEN [IdleMgrTask EXCEPT !.pc = "init_read", !.op = "init"]
                    ELSE IdleMgrTask]
    /\ loadsStarted = 1
    /\ opsBegun = 0

\* Manager operations invoked one at a time, each after the previous one has
\* returned; the constructor's initialization and the saves it starts run in
\* the background.
NextMgrSeq ==
    \/ \E p \in Callers :
          \/ BeginAddConfiguration(p, TRUE)
          \/ BeginRemoveConfiguration(p, TRUE)
          \/ BeginSetActiveConfiguration(p, TRUE)
          \/ BeginGetAdapter(p, TRUE)
    \/ \E p \in MgrProcs : MgrStep(p)

\* getActiveConfiguration of an initialized manager: the active id, or null.
reportedActive(cfgs, active) ==
    IF active # NullId /\ hasConfig(cfgs, active) THEN active ELSE NullId

\* The page is loaded again: a new manager instance is constructed on the
\* store the previous one leaves, and its constructor starts initializeAsync.
newManagerInstance ==
    /\ previousActive = <<>>
    /\ initialized
    /\ MgrInFlight = {}
    /\ previousActive' = <<reportedActive(configs, activeConfigId)>>
    /\ configs' = <<>>
    /\ activeConfigId' = NullId
    /\ adapters' = {}
    /\ initialized' = FALSE
    /\ mgrTask' = [p \in MgrProcs |->
                     IF p = "ctor" THEN [IdleMgrTask EXCEPT !.pc = "init_read", !.op = "init"]
                     ELSE IdleMgrTask]
    /\ loadsStarted' = 1
    /\ opsBegun' = 0
    /\ UNCHANGED llm_configs
    /\ UNCHANGED <<ctxVars, genVars, scored, today, templateCache, rendered, renders,
                   requestBody>>

\* Manager operations one at a time, then a new instance that initializes.
NextMgrRestart ==
    \/ \E p \in Callers :
          \/ previousActive = <<>> /\ BeginAddConfiguration(p, TRUE)
          \/ previousActive = <<>> /\ BeginRemoveConfiguration(p, TRUE)
          \/ previousActive = <<>> /\ BeginSetActiveConfiguration(p, TRUE)
          \/ previousActive = <<>> /\ BeginGetAdapter(p, TRUE)
    \/ \E p \in MgrProcs : MgrStep(p)
    \/ newManagerInstance

\* setActiveConfiguration is called on a manager whose initialization and
\* store writes have completed; it may overlap the other caller's call.
BeginOverlappingSetActive(p, id) ==
    /\ previousActive # <<>>
    /\ initialized
    /\ MgrInFlight \subseteq Callers
    /\ BeginOperation(p, FALSE, "setActiveConfiguration", id, LMStudioLocal)

\* The configurations are managed one call at a time; then the page
\* is loaded again and, the new instance being initialized, the caller u1
\* activates 'lmstudio-local' and the caller u2 activates 'anthropic-1', in
\* calls that may overlap.
NextSetActiveOverlap ==
    \/ \E p \in Callers :
          \/ previousActive = <<>> /\ BeginAddConfiguration(p, TRUE)
          \/ previousActive = <<>> /\ BeginRemoveConfiguration(p, TRUE)
          \/ previousActive = <<>> /\ BeginSetActiveConfiguration(p, TRUE)
          \/ previousActive = <<>> /\ BeginGetAdapter(p, TRUE)
    \/ newManagerInstance
    \/ BeginOverlappingSetActive("u1", "lmstudio-local")
    \/ BeginOverlappingSetActive("u2", "anthropic-1")
    \/ \E p \in MgrProcs : MgrStep(p)

\* Manager operations invoked at any time by several callers.
NextMgr ==
    \/ \E p \in Callers :
          \/ BeginAddConfiguration(p, FALSE)
          \/ BeginRemoveConfiguration(p, FALSE)
          \/ BeginSetActiveConfiguration(p, FALSE)
          \/ BeginGetAdapter(p, FALSE)
    \/ \E p \in MgrProcs : MgrStep(p)


(***************************************************************************)
(* Texts: a string is the sequence of its characters.                      *)
(***************************************************************************)
UpperCase == <<"A", "B", "C", "D", "E", "F", "G", "H", "I", "J", "K", "L", "M",
               "N", "O", "P", "Q", "R", "S", "T", "U", "V", "W", "X", "Y", "Z">>

LowerCase == <<"a", "b", "c", "d", "e", "f", "g", "h", "i", "j", "k", "l", "m",
               "n", "o", "p", "q", "r", "s", "t", "u", "v", "w", "x", "y", "z">>

Digits == {"0", "1", "2", "3", "4", "5", "6", "7", "8", "9"}

UpperCaseLetters == Range(UpperCase)

LowerCaseOf == [c \in UpperCaseLetters |->
                   LowerCase[CHOOSE k \in 1..Len(UpperCase) : UpperCase[k] = c]]

\* String.prototype.toLowerCase
toLowerCase(text) ==
    [i \in 1..Len(text) |->
        IF text[i] \in UpperCaseLetters THEN LowerCaseOf[text[i]] ELSE text[i]]

\* String.prototype.includes(word)
includes(text, word) ==
    \E i \in 1..(Len(text) - Len(word) + 1) :
        /\ text[i] = word[1]
        /\ SubSeq(text, i, i + Len(word) - 1) = word

\* String.prototype.split(' '): the pieces between single spaces.
split(text) ==
    LET spaces == {i \in 1..Len(text) : text[i] = " "}
        n == Cardinality(spaces)
        spaceAt(k) == CHOOSE i \in spaces : Cardinality({j \in spaces : j < i}) = k - 1
    IN [k \in 1..(n + 1) |->
          SubSeq(text,
                 IF k = 1 THEN 1 ELSE spaceAt(k - 1) + 1,
                 IF k = n + 1 THEN Len(text) ELSE spaceAt(k) - 1)]

\* /\d/.test(text)
hasNumbers(text) == \E i \in 1..Len(text) : text[i] \in Digits

Filler(n) == [i \in 1..n |-> "x"]

(***************************************************************************)
(* The ambiguity scorer, in hundredths.                                    *)
(***************************************************************************)
ShortLength == 100
MediumLength == 200
ShortPenalty == 30
MediumPenalty == 10
NoNumbersPenalty == 20
VagueWordPenalty == 10
PronounPenalty == 5
MissingContextPenalty == 10
ScoreCap == 100
GateThreshold == 40

vagueWords == {<<"s", "o", "m", "e">>,
               <<"m", "a", "y", "b", "e">>,
               <<"p", "o", "s", "s", "i", "b", "l", "y">>,
               <<"c", "o", "u", "l", "d">>,
               <<"m", "i", "g", "h", "t">>,
               <<"p", "e", "r", "h", "a", "p", "s">>,
               <<"p", "r", "o", "b", "a", "b", "l", "y">>}

pronouns == {<<"i", "t">>,
             <<"t", "h", "i", "s">>,
             <<"t", "h", "a", "t">>,
             <<"t", "h", "e", "y">>,
             <<"t", "h", "e", "m">>}

\* The descriptions the form is submitted with.
DescriptionTexts ==
    [numbered |-> <<"E", "x", "p", "o", "r", "t", " ", "5", " ", "r", "e", "p", "o", "r", "t", "s">>,
     vague |-> <<"M", "a", "y", "b", "e", " ", "f", "i", "x", " ", "i", "t">>,
     embedded |-> <<"S", "o", "m", "e", "t", "h", "i", "n", "g", " ", "f", "o", "r", " ", "t", "h", "e", "m", ".">>,
     medium |-> <<"E", "x", "p", "o", "r", "t", " ", "5", " ", "r", "e", "p", "o", "r", "t", "s", " ">> \o Filler(ShortLength),
     long |-> <<"E", "x", "p", "o", "r", "t", " ", "r", "e", "p", "o", "r", "t", "s", " ">> \o Filler(MediumLength),
     nearshort |-> <<"E", "x", "p", "o", "r", "t", " ", "5", " ", "r", "e", "p", "o", "r", "t", "s", " ">> \o Filler(ShortLength - 20),
     nearmedium |-> <<"E", "x", "p", "o", "r", "t", " ", "5", " ", "r", "e", "p", "o", "r", "t", "s", " ">> \o Filler(MediumLength - 20),
     precise |-> <<"E", "x", "p", "o", "r", "t", " ", "5", " ", "r", "e", "p", "o", "r", "t", "s", " ">> \o Filler(MediumLength),
     multiline |-> <<"F", "i", "x", " ", "5", " ", "b", "u", "g", "s", "\n", "i", "t", "\n", "f", "a", "i", "l", "s", ".", "\t", "T", "h", "e", "y", " ", "w", "a", "i", "t">>,
     allvague |-> <<"s", "o", "m", "e", " ", "m", "a", "y", "b", "e", " ", "p", "o", "s", "s", "i", "b", "l", "y", " ", "c", "o", "u", "l", "d", " ", "m", "i", "g", "h", "t", " ", "p", "e", "r", "h", "a", "p", "s", " ", "p", "r", "o", "b", "a", "b", "l", "y", " ", "i", "t", " ", "t", "h", "i", "s", " ", "t", "h", "a", "t", " ", "t", "h", "e", "y", " ", "t", "h", "e", "m">>]

DescriptionIds == DOMAIN DescriptionTexts

ContextLists == {<<>>, <<"pm">>}

SpecInputs ==
    [description : DescriptionIds, stakeholders : ContextLists, constraints : ContextLists]

\* LLMService.calculateAmbiguityScore on a description given as its text.
ambiguityScore(description, stakeholders, constraints) ==
    LET lowered == toLowerCase(description)
        words == Range(split(lowered))
        lengthScore == IF Len(description) < ShortLength THEN ShortPenalty
                       ELSE IF Len(description) < MediumLength THEN MediumPenalty ELSE 0
        numberScore == IF ~hasNumbers(description) THEN NoNumbersPenalty ELSE 0
        vagueCount == Cardinality({w \in vagueWords : includes(lowered, w)})
        pronounCount == Cardinality({w \in pronouns : w \in words})
        contextScore == (IF Len(stakeholders) = 0 THEN MissingContextPenalty ELSE 0)
                        + (IF Len(constraints) = 0 THEN MissingContextPenalty ELSE 0)
        score == lengthScore + numberScore + vagueCount * VagueWordPenalty
                 + pronounCount * PronounPenalty + contextScore
    IN IF score < ScoreCap THEN score ELSE ScoreCap

\* LLMService.calculateAmbiguityScore
calculateAmbiguityScore(input) ==
    ambiguityScore(DescriptionTexts[input.description], input.stakeholders, input.constraints)

\* A description is scored.
scoreDescription(input) ==
    /\ scored = <<>>
    /\ scored' = <<[description |-> DescriptionTexts[input.description],
                    stakeholders |-> input.stakeholders,
                    constraints |-> input.constraints,
                    appended |-> <<>>,
                    score |-> calculateAmbiguityScore(input),
                    previous |-> <<>>]>>
    /\ UNCHANGED <<previousActive, ctxVars, mgrVars, genVars, today, templateCache, rendered, renders, requestBody>>

\* The user appends a word to the description scored last, after `separator`,
\* and the description is scored again.
scoreWithAppended(separator, word) ==
    /\ scored # <<>>
    /\ scored[1].appended = <<>>
    /\ LET description == scored[1].description \o separator \o word IN
          scored' = <<[scored[1] EXCEPT
                         !.description = description,
                         !.appended = <<word>>,
                         !.score = ambiguityScore(description, scored[1].stakeholders,
                                                  scored[1].constraints),
                         !.previous = <<scored[1].score>>]>>
    /\ UNCHANGED <<previousActive, ctxVars, mgrVars, genVars, today, templateCache, rendered, renders, requestBody>>

\* The score of every input, computed once.
AmbiguityScores == [input \in SpecInputs |-> calculateAmbiguityScore(input)]

\* The inputs the form is submitted with: scores below, at and above the
\* gate's threshold.
FormInputs ==
    {[description |-> "numbered", stakeholders |-> <<"pm">>, constraints |-> <<"pm">>],
     [description |-> "numbered", stakeholders |-> <<"pm">>, constraints |-> <<>>],
     [description |-> "numbered", stakeholders |-> <<>>, constraints |-> <<>>],
     [description |-> "vague", stakeholders |-> <<>>, constraints |-> <<>>]}

\* A gate that fires at the threshold already.
gateFiresFromThreshold(score) == score >= GateThreshold

\* if (ambiguityScore > 0.4)
gateFires(score) == score > GateThreshold

(***************************************************************************)
(* Completion calls: LLMService.callLLM and the adapters' generateCompletion. *)
(***************************************************************************)
Providers == {"openai", "anthropic", "lmstudio", "ollama"}

CallKinds == Providers \cup {"callLLM"}

Operations == {"generateSpec", "generateClarifyingQuestions", "refineSpec"}

\* The response heads a backend answers with.
Responses ==
    {[status |-> "200", statusText |-> "OK", ok |-> TRUE],
     [status |-> "500", statusText |-> "Internal Server Error", ok |-> FALSE]}

\* The bodies of a non-2xx response.
ErrorTexts == {"overloaded"}

SpecFields == {"story", "tasks"}

QuestionFields == {"questions", "estimated_confidence"}

JsonObjects ==
    {"specA", "specStoryOnly", "partialB", "partialExtra", "questionsQ", "questionsNone"}

\* The object a JSON text denotes.
JsonValue(token) ==
    CASE token = "specA" -> [story |-> "storyA", tasks |-> "tasksA"]
      [] token = "specStoryOnly" -> [story |-> "storyA"]
      [] token = "partialB" -> [tasks |-> "tasksB"]
      [] token = "partialExtra" -> [tasks |-> "tasksB", notes |-> "notesB"]
      [] token = "questionsQ" -> [questions |-> <<"q1">>, estimated_confidence |-> "c"]
      [] token = "questionsNone" -> [questions |-> <<>>, estimated_confidence |-> "c"]

\* The message contents a model answers with, as texts of tokens (" " is
\* white space): JSON alone, JSON inside white space, JSON between prose,
\* JSON before prose, braces around text that is no JSON, prose alone, white
\* space alone, nothing.
Contents ==
    {<<>>,
     <<"{", "specA", "}">>, <<"{", "specStoryOnly", "}">>,
     <<"{", "partialB", "}">>, <<"{", "partialExtra", "}">>,
     <<"{", "questionsQ", "}">>, <<"{", "questionsNone", "}">>,
     <<" ", "{", "specA", "}", " ">>,
     <<"Here is the result:", " ", "{", "specA", "}", " ", "done.">>,
     <<"{", "specA", "}", " ", "done.">>,
     <<"Here is the spec:", "{", "not json", "}">>,
     <<"I cannot help with that.">>,
     <<" ">>}

\* A response body that is not JSON at all.
NotJsonBody == <<"<html>">>

\* String.prototype.trim: the white space at both ends goes.
trim(text) ==
    LET solid == {i \in 1..Len(text) : text[i] # " "}
    IN IF solid = {} THEN <<>>
       ELSE SubSeq(text, CHOOSE i \in solid : \A j \in solid : i <= j,
                         CHOOSE i \in solid : \A j \in solid : j <= i)

\* JSON.parse(text): <<value>>, or <<>> when it throws.
JSONparse(text) ==
    IF Len(text) = 3 /\ text[1] = "{" /\ text[3] = "}" /\ text[2] \in JsonObjects
    THEN <<JsonValue(text[2])>> ELSE <<>>

\* content.match(/\{[\s\S]*\}/): from the first "{" to the last "}".
matchBraces(text) ==
    LET opens == {i \in 1..Len(text) : text[i] = "{"}
        closes == {i \in 1..Len(text) : text[i] = "}"}
    IN IF opens # {} /\ closes # {}
       THEN LET first == CHOOSE i \in opens : \A j \in opens : i <= j
                last == CHOOSE i \in closes : \A j \in closes : j <= i
            IN IF first < last
               THEN <<[index |-> first, text |-> SubSeq(text, first, last)]>>
               ELSE <<>>
       ELSE <<>>

restrict(value, fields) == [f \in (DOMAIN value) \cap fields |-> value[f]]

\* The fields of SpecOutputSchema declared with .default(...), and the default.
SpecDefaults == [tasks |-> "[]"]

\* A schema.parse that fills in no defaults.
schemaParseWithoutDefaults(schema, value) ==
    CASE schema = "SpecOutputSchema" ->
            IF SpecFields \ DOMAIN SpecDefaults \subseteq DOMAIN value
            THEN <<restrict(value, SpecFields)>> ELSE <<>>
      [] schema = "ClarifyingQuestionsSchema" ->
            IF QuestionFields \subseteq DOMAIN value
            THEN <<restrict(value, QuestionFields)>> ELSE <<>>
      [] schema = "SpecOutputSchema.partial()" -> <<restrict(value, SpecFields)>>

\* schema.parse(value): <<validated>>, or <<>> when it throws. An object
\* schema drops the keys it does not define, fills in the defaults of absent
\* fields and throws on an absent field without a default; partial() makes
\* every field optional, and an absent optional field stays absent.
schemaParse(schema, value) ==
    CASE schema = "SpecOutputSchema" ->
            IF SpecFields \ DOMAIN SpecDefaults \subseteq DOMAIN value
            THEN <<[f \in SpecFields |->
                      IF f \in DOMAIN value THEN value[f] ELSE SpecDefaults[f]]>>
            ELSE <<>>
      [] schema = "ClarifyingQuestionsSchema" ->
            IF QuestionFields \subseteq DOMAIN value
            THEN <<restrict(value, QuestionFields)>> ELSE <<>>
      [] schema = "SpecOutputSchema.partial()" -> <<restrict(value, SpecFields)>>

DefaultSummary == <<"Generated specification">>

\* A parser that takes the whole text or nothing.
processWholeContent(schema, content) ==
    IF Len(content) = 0
    THEN [ok |-> FALSE, json |-> <<>>, summary |-> <<>>,
          error |-> <<"No content in LLM response">>]
    ELSE IF JSONparse(trim(content)) = <<>>
              \/ schemaParse(schema, JSONparse(trim(content))[1]) = <<>>
    THEN [ok |-> FALSE, json |-> <<>>, summary |-> <<>>,
          error |-> <<"No valid JSON found in LLM response">>]
    ELSE [ok |-> TRUE, json |-> schemaParse(schema, JSONparse(trim(content))[1]),
          summary |-> DefaultSummary, error |-> <<>>]

\* callLLM from the received content to its return value or its error.
processContent(schema, content) ==
    LET failure(message) == [ok |-> FALSE, json |-> <<>>, summary |-> <<>>, error |-> message]
        validated(parsed, summary) ==
            IF schemaParse(schema, parsed) = <<>> THEN failure(<<"ZodError">>)
            ELSE [ok |-> TRUE, json |-> schemaParse(schema, parsed), summary |-> summary,
                  error |-> <<>>]
        direct == JSONparse(trim(content))
        jsonMatch == matchBraces(content)
        summaryPart == trim(SubSeq(content, 1, jsonMatch[1].index - 1))
    IN IF Len(content) = 0 THEN failure(<<"No content in LLM response">>)
       ELSE IF direct # <<>> THEN validated(direct[1], DefaultSummary)
       ELSE IF jsonMatch = <<>> THEN failure(<<"No valid JSON found in LLM response">>)
       ELSE IF JSONparse(jsonMatch[1].text) = <<>>
            THEN failure(<<"Failed to parse LLM response as JSON: ", "SyntaxError">>)
       ELSE validated(JSONparse(jsonMatch[1].text)[1],
                      IF summaryPart # <<>> THEN summaryPart ELSE DefaultSummary)

ApiErrorPrefix(kind) ==
    CASE kind = "callLLM" -> "LLM API error: "
      [] kind = "openai" -> "OpenAI API error: "
      [] kind = "anthropic" -> "Anthropic API error: "
      [] kind = "lmstudio" -> "LM Studio API error: "
      [] kind = "ollama" -> "Ollama API error: "

\* `${prefix}${response.status} ${response.statusText} - ${errorText}`
apiError(kind, response, errorText) ==
    <<ApiErrorPrefix(kind), response.status, " ", response.statusText, " - ", errorText>>

timedOut(kind) ==
    IF kind = "callLLM" THEN <<"LLM request timed out">> ELSE <<"Request timed out">>

OperationPrefix(op) ==
    CASE op = "generateSpec" -> "Failed to generate specification: "
      [] op = "generateClarifyingQuestions" -> "Failed to generate clarifying questions: "
      [] op = "refineSpec" -> "Failed to refine specification: "

\* A wrapper that drops the cause.
wrapErrorUnknown(op, cause) == <<OperationPrefix(op), "Unknown error">>

\* new Error(`Failed to ...: ${error.message}`)
wrapError(op, cause) == <<OperationPrefix(op)>> \o cause

\* DEFAULT_LLM_CONFIG
DEFAULT_LLM_CONFIG ==
    [provider |-> "local", base_url |-> "http://localhost:1234", model |-> "local-model"]

\* export const llmService = new LLMService()
llmService == [config |-> DEFAULT_LLM_CONFIG]

\* One configuration of each provider, as an adapter holds it.
AdapterConfigs ==
    {LMStudioLocal, AnthropicClaude,
     [provider |-> "openai", base_url |-> "https://api.openai.com", model |-> "gpt-4o"],
     [provider |-> "ollama", base_url |-> "http://localhost:11434", model |-> "llama3"]}

\* The url a request of this kind is posted to and the model it names.
requestOf(kind, config) ==
    [url |-> <<config.base_url,
               CASE kind = "anthropic" -> "/v1/messages"
                 [] kind = "ollama" -> "/api/generate"
                 [] OTHER -> "/v1/chat/completions">>,
     model |-> config.model]

IdleCall ==
    [kind |-> "callLLM", schema |-> "none", request |-> <<>>, stage |-> "idle",
     timerArmed |-> FALSE, elapsed |-> 0, requests |-> 0, response |-> <<>>,
     errorText |-> <<>>, content |-> <<>>, error |-> <<>>, result |-> <<>>]

CallInFlight == call.stage \in {"fetch", "body"}

\* setTimeout(() => controller.abort(), timeout), then fetch(...)
sendRequest(kind, schema, config) ==
    [IdleCall EXCEPT !.kind = kind, !.schema = schema,
                     !.request = <<requestOf(kind, config)>>, !.stage = "fetch",
                     !.timerArmed = TRUE, !.requests = 1]

\* A failure handler that sends the request once more.
retryCall(c, error) ==
    IF c.requests < 2
    THEN [c EXCEPT !.stage = "fetch", !.timerArmed = TRUE, !.elapsed = 0,
                   !.requests = c.requests + 1, !.response = <<>>]
    ELSE [c EXCEPT !.stage = "failed", !.timerArmed = FALSE, !.error = error]

\* catch (error) { clearTimeout(timeoutId); ... throw ... }
failCall(c, error) == [c EXCEPT !.stage = "failed", !.timerArmed = FALSE, !.error = error]

\* The generation flow and the completion calls leave the manager and the
\* context-store calls alone.
GenFrame == UNCHANGED <<ctxTask, mgrVars, resolved, libVars>>

\* Time passes while the backend has not answered. An armed timer fires when
\* its delay has elapsed; with the timer cleared nothing ends the wait.
tick ==
    /\ CallInFlight
    /\ call.elapsed < (IF call.timerArmed THEN TimeoutTicks ELSE TimeoutTicks + MaxStall)
    /\ call' = [call EXCEPT !.elapsed = call.elapsed + 1]
    /\ UNCHANGED <<spec_inputs, spec_outputs, ui, flow, submissions,
                   project_contexts, everActivated>>
    /\ GenFrame

\* The timer fires: controller.abort() rejects the fetch with an AbortError.
abortTimerFires ==
    /\ CallInFlight
    /\ call.timerArmed
    /\ call.elapsed >= TimeoutTicks
    /\ call' = failCall(call, timedOut(call.kind))
    /\ UNCHANGED <<spec_inputs, spec_outputs, ui, flow, submissions,
                   project_contexts, everActivated>>
    /\ GenFrame

\* fetch rejects: the backend is unreachable.
fetchRejects ==
    /\ call.stage = "fetch"
    /\ call' = failCall(call, <<"Failed to fetch">>)
    /\ UNCHANGED <<spec_inputs, spec_outputs, ui, flow, submissions,
                   project_contexts, everActivated>>
    /\ GenFrame

\* fetch resolves with the response head; clearTimeout(timeoutId)
fetchResolves ==
    /\ call.stage = "fetch"
    /\ \E response \in Responses :
          call' = [call EXCEPT !.stage = "body", !.timerArmed = FALSE,
                               !.response = <<response>>]
    /\ UNCHANGED <<spec_inputs, spec_outputs, ui, flow, submissions,
                   project_contexts, everActivated>>
    /\ GenFrame

\* if (!response.ok) { const errorText = await response.text(); throw ... }
errorBodyArrives ==
    /\ call.stage = "body"
    /\ ~call.response[1].ok
    /\ \E errorText \in ErrorTexts :
          call' = failCall([call EXCEPT !.errorText = <<errorText>>],
                           apiError(call.kind, call.response[1], errorText))
    /\ UNCHANGED <<spec_inputs, spec_outputs, ui, flow, submissions,
                   project_contexts, everActivated>>
    /\ GenFrame

\* const data = await response.json(), and what the call makes of it
bodyArrives ==
    /\ call.stage = "body"
    /\ call.response[1].ok
    /\ \E body \in Contents \cup {NotJsonBody} :
          call' =
            IF body = NotJsonBody THEN failCall(call, <<"SyntaxError">>)
            ELSE IF call.kind = "callLLM"
            THEN LET outcome == processContent(call.schema, body)
                     received == [call EXCEPT !.content = <<body>>]
                 IN IF outcome.ok
                    THEN [received EXCEPT !.stage = "ok",
                                          !.result = <<[json |-> outcome.json[1],
                                                        summary |-> outcome.summary]>>]
                    ELSE failCall(received, outcome.error)
            ELSE [call EXCEPT !.stage = "ok", !.content = <<body>>,
                              !.result = <<[content |-> body]>>]
    /\ UNCHANGED <<spec_inputs, spec_outputs, ui, flow, submissions,
                   project_contexts, everActivated>>
    /\ GenFrame

\* The connection breaks while the body is read.
bodyFails ==
    /\ call.stage = "body"
    /\ call' = failCall(call, <<"network error">>)
    /\ UNCHANGED <<spec_inputs, spec_outputs, ui, flow, submissions,
                   project_contexts, everActivated>>
    /\ GenFrame

\* adapter.generateCompletion(messages) is called, e.g. by testConnection.
\* The adapters share nothing with the page's flow, so their calls are
\* explored before the first submission only.
generateCompletion(provider) ==
    /\ flow.pc = "idle"
    /\ call.stage = "idle"
    /\ submissions = 0
    /\ \E config \in AdapterConfigs :
          /\ config.provider = provider
          /\ call' = sendRequest(provider, "none", config)
    /\ UNCHANGED <<spec_inputs, spec_outputs, ui, flow, submissions,
                   project_contexts, everActivated>>
    /\ GenFrame

(***************************************************************************)
(* The generation flow of the page.                                        *)
(***************************************************************************)
\* DEFAULT_PROJECT_CONTEXT
DefaultProjectContext == "default"

InitialUi ==
    [selectedProject |-> <<>>, specOutput |-> <<>>, summary |-> <<>>,
     clarifyingQuestions |-> <<>>, specInputId |-> 0, currentInput |-> <<>>,
     loading |-> FALSE]

IdleFlow ==
    [handler |-> "none", pc |-> "idle", input |-> <<>>, inputId |-> 0, op |-> "none",
     opsInvoked |-> <<>>, specResponse |-> <<>>, failedOp |-> "none", cause |-> <<>>,
     error |-> <<>>]

\* A merge in which the original spec wins.
mergeUnderSpec(spec, refinedParts) ==
    [f \in (DOMAIN spec) \cup (DOMAIN refinedParts) |->
        IF f \in DOMAIN spec THEN spec[f] ELSE refinedParts[f]]

\* { ...specResponse.json, ...refinedParts }
mergeSpec(spec, refinedParts) ==
    [f \in (DOMAIN spec) \cup (DOMAIN refinedParts) |->
        IF f \in DOMAIN refinedParts THEN refinedParts[f] ELSE spec[f]]

\* dbService.createSpecOutput
createSpecOutput(store, inputId, response) ==
    Append(store, [id |-> Len(store) + 1, input_id |-> inputId,
                   output_json |-> response.json, summary_md |-> response.summary])

OutputsOfInput(store, inputId) == {i \in 1..Len(store) : store[i].input_id = inputId}

\* The flow calls an operation of the LLM service, which calls callLLM once.
invoke(f, op) == [f EXCEPT !.op = op, !.opsInvoked = Append(f.opsInvoked, op)]

\* handleCreateProject: the project and its default context, made active.
\* The selected project matters to a submission only through the active
\* context it reads, so projects are created and selected before the first
\* submission.
handleCreateProject(pid) ==
    /\ flow.pc = "idle"
    /\ call.stage = "idle"
    /\ submissions = 0
    /\ VersionCount(project_contexts, pid) = 0
    /\ Len(project_contexts) < MaxContexts
    /\ LET newId == Len(project_contexts) + 1
           existing == getProjectContexts(project_contexts, pid)
           rec == [id |-> newId, project_id |-> pid, context_json |-> DefaultProjectContext,
                   version |-> nextVersion(existing), is_active |-> 1, created_at |-> newId]
       IN project_contexts' = Append(project_contexts, rec)
    /\ everActivated' = everActivated \cup {pid}
    /\ ui' = [ui EXCEPT !.selectedProject = <<pid>>]
    /\ UNCHANGED <<spec_inputs, spec_outputs, flow, call, submissions>>
    /\ GenFrame

\* handleProjectSelect
handleProjectSelect(pid) ==
    /\ flow.pc = "idle"
    /\ call.stage = "idle"
    /\ VersionCount(project_contexts, pid) > 0
    /\ submissions = 0
    /\ ui.selectedProject # <<pid>>
    /\ ui' = [ui EXCEPT !.selectedProject = <<pid>>]
    /\ UNCHANGED <<spec_inputs, spec_outputs, flow, call, submissions,
                   project_contexts, everActivated>>
    /\ GenFrame

\* handleGenerateSpec up to the call of the LLM service: reset the display,
\* read the active context, store the input, score it and pass the gate.
handleGenerateSpec(input) ==
    /\ flow.pc = "idle"
    /\ call.stage = "idle"
    /\ ui.selectedProject # <<>>
    /\ submissions < MaxRequests
    /\ submissions' = submissions + 1
    /\ LET pid == ui.selectedProject[1]
           activeContext == getActiveContexts(project_contexts, pid)
           inputId == Len(spec_inputs) + 1
           started == [IdleFlow EXCEPT !.handler = "generate", !.input = <<input>>]
           reset == [ui EXCEPT !.specOutput = <<>>, !.summary = <<>>,
                               !.clarifyingQuestions = <<>>, !.currentInput = <<input>>]
       IN IF Len(activeContext) = 0
          THEN /\ flow' = [started EXCEPT !.error = <<"No active project context found">>]
               /\ ui' = [reset EXCEPT !.loading = FALSE]
               /\ UNCHANGED <<spec_inputs, call>>
          ELSE /\ spec_inputs' = Append(spec_inputs,
                                        [id |-> inputId, project_id |-> pid, input |-> input])
               /\ ui' = [reset EXCEPT !.loading = TRUE]
               /\ IF gateFires(AmbiguityScores[input])
                  THEN /\ flow' = invoke([started EXCEPT !.pc = "gs_clarify",
                                                         !.inputId = inputId],
                                         "generateClarifyingQuestions")
                       /\ call' = sendRequest("callLLM", "ClarifyingQuestionsSchema", llmService.config)
                  ELSE /\ flow' = invoke([started EXCEPT !.pc = "gs_direct",
                                                         !.inputId = inputId],
                                         "generateSpec")
                       /\ call' = sendRequest("callLLM", "SpecOutputSchema", llmService.config)
    /\ UNCHANGED <<spec_outputs, project_contexts, everActivated>>
    /\ GenFrame

\* handleGenerateSpec, the gate has fired: the questions are shown.
clarifyingQuestionsReturn ==
    /\ flow.pc = "gs_clarify"
    /\ call.stage = "ok"
    /\ ui' = [ui EXCEPT !.clarifyingQuestions = call.result[1].json.questions,
                        !.specInputId = flow.inputId, !.loading = FALSE]
    /\ flow' = [flow EXCEPT !.pc = "idle", !.op = "none"]
    /\ call' = IdleCall
    /\ UNCHANGED <<spec_inputs, spec_outputs, submissions, project_contexts, everActivated>>
    /\ GenFrame

\* handleGenerateSpec, direct path, and handleSkipQuestions: the spec is
\* stored and shown.
generateSpecReturns ==
    /\ flow.pc \in {"gs_direct", "skip_generate"}
    /\ call.stage = "ok"
    /\ spec_outputs' = IF flow.inputId # 0
                       THEN createSpecOutput(spec_outputs, flow.inputId, call.result[1])
                       ELSE spec_outputs
    /\ ui' = [ui EXCEPT !.specOutput = <<call.result[1].json>>,
                        !.summary = call.result[1].summary, !.loading = FALSE]
    /\ flow' = [flow EXCEPT !.pc = "idle", !.op = "none"]
    /\ call' = IdleCall
    /\ UNCHANGED <<spec_inputs, submissions, project_contexts, everActivated>>
    /\ GenFrame

\* The questions component calls onAnswersProvided: handleAnswersProvided up
\* to its generateSpec.
handleAnswersProvided ==
    /\ flow.pc = "idle"
    /\ call.stage = "idle"
    /\ Len(ui.clarifyingQuestions) > 0
    /\ ui.specInputId # 0 /\ ui.currentInput # <<>>
    /\ ui' = [ui EXCEPT !.loading = TRUE, !.clarifyingQuestions = <<>>]
    /\ flow' = invoke([IdleFlow EXCEPT !.handler = "answers", !.pc = "ans_generate",
                                       !.input = ui.currentInput,
                                       !.inputId = ui.specInputId],
                      "generateSpec")
    /\ call' = sendRequest("callLLM", "SpecOutputSchema", llmService.config)
    /\ UNCHANGED <<spec_inputs, spec_outputs, submissions, project_contexts, everActivated>>
    /\ GenFrame

\* handleAnswersProvided: the initial output is stored, then refineSpec
answersGenerateReturns ==
    /\ flow.pc = "ans_generate"
    /\ call.stage = "ok"
    /\ spec_outputs' = createSpecOutput(spec_outputs, flow.inputId, call.result[1])
    /\ flow' = invoke([flow EXCEPT !.pc = "ans_refine", !.specResponse = call.result],
                      "refineSpec")
    /\ call' = sendRequest("callLLM", "SpecOutputSchema.partial()", llmService.config)
    /\ UNCHANGED <<spec_inputs, ui, submissions, project_contexts, everActivated>>
    /\ GenFrame

\* handleAnswersProvided: the refined parts are merged over the spec and shown.
refineSpecReturns ==
    /\ flow.pc = "ans_refine"
    /\ call.stage = "ok"
    /\ ui' = [ui EXCEPT !.specOutput = <<mergeSpec(flow.specResponse[1].json,
                                                   call.result[1].json)>>,
                        !.summary = flow.specResponse[1].summary, !.loading = FALSE]
    /\ flow' = [flow EXCEPT !.pc = "idle", !.op = "none"]
    /\ call' = IdleCall
    /\ UNCHANGED <<spec_inputs, spec_outputs, submissions, project_contexts, everActivated>>
    /\ GenFrame

\* The questions component calls onSkip: handleSkipQuestions up to generateSpec.
handleSkipQuestions ==
    /\ flow.pc = "idle"
    /\ call.stage = "idle"
    /\ Len(ui.clarifyingQuestions) > 0
    /\ ui.currentInput # <<>>
    /\ ui' = [ui EXCEPT !.loading = TRUE, !.clarifyingQuestions = <<>>]
    /\ flow' = invoke([IdleFlow EXCEPT !.handler = "skip", !.pc = "skip_generate",
                                       !.input = ui.currentInput,
                                       !.inputId = ui.specInputId],
                      "generateSpec")
    /\ call' = sendRequest("callLLM", "SpecOutputSchema", llmService.config)
    /\ UNCHANGED <<spec_inputs, spec_outputs, submissions, project_contexts, everActivated>>
    /\ GenFrame

\* callLLM throws: the operation wraps the error, the handler logs it and
\* clears the loading flag.
operationThrows ==
    /\ flow.pc # "idle"
    /\ call.stage = "failed"
    /\ flow' = [flow EXCEPT !.pc = "idle", !.op = "none", !.failedOp = flow.op,
                            !.cause = call.error, !.error = wrapError(flow.op, call.error)]
    /\ ui' = [ui EXCEPT !.loading = FALSE]
    /\ call' = IdleCall
    /\ UNCHANGED <<spec_inputs, spec_outputs, submissions, project_contexts, everActivated>>
    /\ GenFrame

\* generateCompletion has returned or thrown to its caller.
generateCompletionSettles ==
    /\ flow.pc = "idle"
    /\ call.stage \in {"ok", "failed"}
    /\ call' = IdleCall
    /\ UNCHANGED <<spec_inputs, spec_outputs, ui, flow, submissions,
                   project_contexts, everActivated>>
    /\ GenFrame

(***************************************************************************)
(* ProjectContextService.resolveContext.                                   *)
(*                                                                         *)
(* A JSON value is [array |-> sequence], [object |-> record] or            *)
(* [scalar |-> string]; a context is the record of its fields' values.     *)
(***************************************************************************)
\* DEFAULT_PROJECT_CONTEXT
DEFAULT_PROJECT_CONTEXT ==
    [glossary |-> [object |-> <<>>],
     stakeholders |-> [array |-> <<>>],
     constraints |-> [array |-> <<>>],
     non_functional |-> [array |-> <<>>],
     api_catalog |-> [array |-> <<>>],
     data_models |-> [array |-> <<>>],
     envs |-> [array |-> <<"local", "dev", "test", "prod">>],
     labels |-> [object |-> <<>>]]

\* The context_json a stored version holds.
contextJson(token) ==
    CASE token = "default" -> DEFAULT_PROJECT_CONTEXT
      [] token = "ctxA" ->
            [DEFAULT_PROJECT_CONTEXT EXCEPT
                !.glossary = [object |-> [API |-> [scalar |-> "interface"]]],
                !.stakeholders =
                    [array |-> <<[name |-> "A", role |-> "PO", interests |-> <<"scope">>]>>],
                !.constraints = [array |-> <<"c1">>],
                !.non_functional = [array |-> <<"n1">>]]
      [] token = "ctxB" ->
            [DEFAULT_PROJECT_CONTEXT EXCEPT
                !.glossary = [object |-> [API |-> [scalar |-> "interface"],
                                          SLA |-> [scalar |-> "agreement"]]],
                !.stakeholders =
                    [array |-> <<[name |-> "C", role |-> "QA", interests |-> <<>>],
                                 [name |-> "A", role |-> "PO", interests |-> <<"scope">>]>>],
                !.constraints = [array |-> <<"c2", "c1">>],
                !.labels = [object |-> [team |-> [scalar |-> "core"]]]]

\* The feature contexts (InputContext) resolveContext is called with.
FeatureContexts ==
    LET base == [stakeholders |-> <<>>, constraints |-> <<>>, non_functional |-> <<>>,
                 inherit_from_project |-> TRUE, overrides |-> <<>>]
    IN {base,
        [base EXCEPT !.inherit_from_project = FALSE, !.stakeholders = <<"B">>,
                     !.overrides = [envs |-> [array |-> <<"prod">>]]],
        [base EXCEPT !.stakeholders = <<"A", "B">>],
        [base EXCEPT !.stakeholders = <<"B", "B">>],
        [base EXCEPT !.constraints = <<"c1", "c3">>, !.non_functional = <<"n2">>],
        [base EXCEPT !.stakeholders = <<"B">>,
                     !.overrides = [stakeholders |-> [array |-> <<>>]]],
        [base EXCEPT !.constraints = <<"c3">>,
                     !.overrides = [constraints |-> [array |-> <<"c9">>]]],
        [base EXCEPT !.overrides =
            [glossary |-> [object |-> [API |-> [scalar |-> "endpoint"],
                                       KPI |-> [scalar |-> "indicator"]]],
             envs |-> [scalar |-> "prod"]]],
        [base EXCEPT !.stakeholders = <<"B">>,
                     !.overrides =
            [labels |-> [object |-> [owner |-> [object |-> [name |-> [scalar |-> "x"]]]]],
             extra |-> [object |-> [a |-> [array |-> <<"1">>]]]]]}

\* A merge in which every value of source replaces the target's as a whole.
shallowMerge(target, source) ==
    [key \in (DOMAIN target) \cup (DOMAIN source) |->
        IF key \in DOMAIN source THEN source[key] ELSE target[key]]

\* deepMerge(target, source), for a source whose objects meet objects or
\* nothing in the target: result = { ...target }, then every key of source
\* is set, an object by merging it into result[key] || {}, anything else
\* as it is.
RECURSIVE deepMerge(_, _)
deepMerge(target, source) ==
    [key \in (DOMAIN target) \cup (DOMAIN source) |->
        IF key \notin DOMAIN source THEN target[key]
        ELSE IF "object" \in DOMAIN source[key]
        THEN [object |-> deepMerge(IF key \in DOMAIN target THEN target[key].object
                                   ELSE <<>>,
                                   source[key].object)]
        ELSE source[key]]

\* A merge that ignores the feature context.
keepProjectDefaults(projectDefaults, featureContext) == projectDefaults

\* resolveContext from the copy of the project defaults to the overrides: the
\* feature's stakeholder names that the project does not know are appended
\* as new records, its constraints and non-functional requirements are
\* united with the project's through a Set, which keeps the first occurrence
\* of each value.
mergeFeatureContext(projectDefaults, featureContext) ==
    LET existingStakeholders ==
            {projectDefaults.stakeholders.array[i].name :
                i \in 1..Len(projectDefaults.stakeholders.array)}
        newStakeholderNames ==
            SelectSeq(featureContext.stakeholders,
                      LAMBDA name : name \notin existingStakeholders)
        newStakeholders ==
            [i \in 1..Len(newStakeholderNames) |->
                [name |-> newStakeholderNames[i], role |-> "Stakeholder",
                 interests |-> <<>>]]
        fromSet(all) ==
            LET firsts == {i \in 1..Len(all) : \A j \in 1..(i - 1) : all[j] # all[i]}
            IN [k \in 1..Cardinality(firsts) |->
                  all[CHOOSE i \in firsts : Cardinality({j \in firsts : j < i}) = k - 1]]
    IN [projectDefaults EXCEPT
          !.stakeholders =
              IF Len(featureContext.stakeholders) > 0
              THEN [array |-> projectDefaults.stakeholders.array \o newStakeholders]
              ELSE projectDefaults.stakeholders,
          !.constraints =
              IF Len(featureContext.constraints) > 0
              THEN [array |-> fromSet(projectDefaults.constraints.array
                                      \o featureContext.constraints)]
              ELSE projectDefaults.constraints,
          !.non_functional =
              IF Len(featureContext.non_functional) > 0
              THEN [array |-> fromSet(projectDefaults.non_functional.array
                                      \o featureContext.non_functional)]
              ELSE projectDefaults.non_functional]

\* A resolution that knows the default context only.
resolveToDefault(projectDefaults, featureContext) == DEFAULT_PROJECT_CONTEXT

\* resolveContext after the read of the active version; featureContext is
\* <<>> when the argument is absent.
resolve(projectDefaults, featureContext) ==
    IF featureContext = <<>> \/ ~featureContext[1].inherit_from_project
    THEN projectDefaults
    ELSE deepMerge(mergeFeatureContext(projectDefaults, featureContext[1]),
                   featureContext[1].overrides)

\* resolveContext(projectId, featureContext)
resolveContext(projectId, featureContext) ==
    /\ LET activeContext == getActiveContexts(project_contexts, projectId)
           projectDefaults == IF Len(activeContext) > 0
                              THEN contextJson(activeContext[1].context_json)
                              ELSE DEFAULT_PROJECT_CONTEXT
       IN resolved' =
            <<[project_id |-> projectId, featureContext |-> featureContext,
               projectDefaults |-> projectDefaults,
               resolvedContext |->
                   IF featureContext = <<>> THEN projectDefaults
                   ELSE mergeFeatureContext(projectDefaults, featureContext[1]),
               result |-> resolve(projectDefaults, featureContext)]>>
    /\ UNCHANGED <<spec_inputs, spec_outputs, ui, flow, call, submissions>>
    /\ UNCHANGED <<ctxVars, mgrVars, libVars>>

InitGenVars ==
    /\ resolved = <<>>
    /\ spec_inputs = <<>>
    /\ spec_outputs = <<>>
    /\ ui = InitialUi
    /\ flow = IdleFlow
    /\ call = IdleCall
    /\ submissions = 0

\* The page in use: projects, submissions of the form, answers and skips, and
\* completion calls made through the adapters.
NextGen ==
    \/ \E pid \in Projects : handleCreateProject(pid)
    \/ \E pid \in Projects : handleProjectSelect(pid)
    \/ \E input \in FormInputs : handleGenerateSpec(input)
    \/ clarifyingQuestionsReturn
    \/ generateSpecReturns
    \/ handleAnswersProvided
    \/ answersGenerateReturns
    \/ refineSpecReturns
    \/ handleSkipQuestions
    \/ operationThrows
    \/ \E provider \in Providers : generateCompletion(provider)
    \/ generateCompletionSettles
    \/ tick
    \/ abortTimerFires
    \/ fetchRejects
    \/ fetchResolves
    \/ errorBodyArrives
    \/ bodyArrives
    \/ bodyFails

InitCtxVars ==
    /\ project_contexts = <<>>
    /\ ctxTask = [p \in CtxProcs |-> IdleCtxTask]
    /\ everActivated = {}

vars == <<ctxVars, mgrVars, genVars, libVars>>

\* Calls on the context store executed one at a time.
NextCtxSeq ==
    \E p \in CtxProcs :
        \/ BeginCreateVersion(p, {"create", "activate"})
        \/ BeginActivateVersion(p, {"create", "activate"})
        \/ CtxStep(p)

(***************************************************************************)
(* The template engine (src/lib/llm/templates). A template is the sequence *)
(* of its parts: the texts between the placeholders, and the placeholders. *)
(* A placeholder holds its text as written (`match`) and the expression    *)
(* between the braces, trimmed: the called function and the variable path. *)
(* A rendered text is a sequence of parts too.                             *)
(***************************************************************************)
Text(string) == [text |-> <<string>>]

Plain(name) ==
    [match |-> <<"{{", name, "}}">>, fn |-> "variable", path |-> <<name>>]

Stringify(name) ==
    [match |-> <<"{{", "JSON.stringify(", name, ")", "}}">>, fn |-> "JSON.stringify",
     path |-> <<name>>]

TodayId == [match |-> <<"{{", "today_id", "}}">>, fn |-> "today_id", path |-> <<>>]

\* TemplateEngine.loadTemplates: the templates of the engine, each up to its
\* last placeholder.
templates ==
    [specGeneration |->
        <<Plain("system_prompt"), Text("RESOLVED PROJECT CONTEXT:"),
          Stringify("resolved_context"), Text("USER INPUT:"), Stringify("input"),
          Text("INSTRUCTIONS: Generate a "), Plain("mode"),
          Text(" specification using stable IDs prefixed with "), TodayId>>,
     clarifyingQuestions |->
        <<Text("RESOLVED PROJECT CONTEXT: "), Stringify("resolved_context"),
          Text("USER INPUT: "), Stringify("input")>>,
     refineSpec |->
        <<Text("SYSTEM: "), Plain("system_prompt"), Text("ORIGINAL SPECIFICATION: "),
          Stringify("original_spec"), Text("CLARIFYING ANSWERS:"),
          Plain("answers_formatted")>>]

TemplateNames == (DOMAIN templates) \cup {"unknown"}

\* The contexts render is called with: a value is a string, an object or null.
TemplateContexts ==
    {<<>>,
     [system_prompt |-> [scalar |-> "You are a product analyst."],
      resolved_context |-> [object |-> "ctxA"],
      input |-> [object |-> "inputA"],
      mode |-> [scalar |-> "draft"]],
     [resolved_context |-> [object |-> "ctxA"], input |-> [object |-> "inputA"]],
     [system_prompt |-> [scalar |-> "You are a product analyst."],
      original_spec |-> [null |-> TRUE],
      answers_formatted |-> [null |-> TRUE],
      mode |-> [object |-> "modeA"]]}

\* new Date().toISOString().split('T')[0]
isoDate(day) == <<"2026", "-", "11", "-", IF day = 1 THEN "02" ELSE IF day = 2 THEN "03" ELSE "04">>

\* .replace(/-/g, '')
withoutDashes(date) == SelectSeq(date, LAMBDA c : c # "-")

\* TemplateEngine.getNestedValue: <<value>>, or <<>> for undefined.
RECURSIVE getNestedValue(_, _)
getNestedValue(obj, path) ==
    IF path = <<>> THEN obj
    ELSE IF obj = <<>> \/ "null" \in DOMAIN obj[1] THEN <<>>
    ELSE IF "fields" \in DOMAIN obj[1] /\ Head(path) \in DOMAIN obj[1].fields
    THEN getNestedValue(<<obj[1].fields[Head(path)]>>, Tail(path))
    ELSE <<>>

\* JSON.stringify(value, null, 2) as the replacement of a match: the JSON
\* text of the value; undefined gives undefined, which replace() writes as
\* the text 'undefined'.
stringifyReplacement(value) ==
    IF value = <<>> THEN Text("undefined")
    ELSE IF "null" \in DOMAIN value[1] THEN Text("null")
    ELSE [json |-> value[1]]

\* String(value)
String(value) ==
    IF "scalar" \in DOMAIN value THEN Text(value.scalar) ELSE Text("[object Object]")

\* The callback of template.replace in TemplateEngine.interpolate.
replacement(part, context, day) ==
    LET value == getNestedValue(<<[fields |-> context]>>, part.path) IN
    CASE part.fn = "JSON.stringify" -> stringifyReplacement(value)
      [] part.fn = "today_id" -> [date |-> withoutDashes(isoDate(day))]
      [] part.fn = "today_date" -> [date |-> isoDate(day)]
      [] OTHER -> IF value = <<>> \/ "null" \in DOMAIN value[1]
                  THEN [text |-> part.match]
                  ELSE String(value[1])

\* TemplateEngine.interpolate
interpolate(template, context, day) ==
    [i \in 1..Len(template) |->
        IF "match" \in DOMAIN template[i]
        THEN replacement(template[i], context, day)
        ELSE template[i]]

\* `${templateName}:${JSON.stringify(context)}`
cacheKey(templateName, context) == <<templateName, [json |-> context]>>

\* TemplateEngine.render(templateName, context)
render(templateName, context) ==
    /\ renders < MaxRenders
    /\ renders' = renders + 1
    /\ IF templateName \notin DOMAIN templates
       THEN /\ rendered' = <<[templateName |-> templateName, context |-> context,
                              day |-> today, result |-> <<>>,
                              error |-> <<"Template '", templateName, "' not found">>]>>
            /\ UNCHANGED templateCache
       ELSE LET key == cacheKey(templateName, context)
                hit == \E e \in templateCache : e.key = key
                result == IF hit THEN (CHOOSE e \in templateCache : e.key = key).value
                          ELSE interpolate(templates[templateName], context, today)
            IN /\ rendered' = <<[templateName |-> templateName, context |-> context,
                                 day |-> today, result |-> <<result>>, error |-> <<>>]>>
               /\ templateCache' = IF hit THEN templateCache
                                   ELSE templateCache \cup {[key |-> key, value |-> result]}
    /\ UNCHANGED <<previousActive, ctxVars, mgrVars, genVars, scored, today, requestBody>>

\* TemplateEngine.clearCache
clearCache ==
    /\ templateCache # {}
    /\ templateCache' = {}
    /\ UNCHANGED <<previousActive, ctxVars, mgrVars, genVars, scored, today, rendered, renders, requestBody>>

\* The date changes while the engine lives.
dateChanges ==
    /\ today < MaxDays
    /\ today' = today + 1
    /\ UNCHANGED <<previousActive, ctxVars, mgrVars, genVars, scored, templateCache, rendered, renders, requestBody>>

(***************************************************************************)
(* The request of the Anthropic adapter (src/lib/llm/config.ts).           *)
(***************************************************************************)
LLMMessages == [role : {"system", "user", "assistant"}, content : {"a", "b"}]

MessageLists == UNION {[1..n -> LLMMessages] : n \in 0..MaxMessages}

\* messages.find(m => m.role === 'system'): <<message>>, or <<>> for undefined.
findSystemMessage(messages) ==
    LET systems == {i \in 1..Len(messages) : messages[i].role = "system"} IN
    IF systems = {} THEN <<>>
    ELSE <<messages[CHOOSE i \in systems : \A j \in systems : i <= j]>>

\* AnthropicAdapter.generateCompletion: the body of the request; `system` is
\* <<content>>, or <<>> when the body has no such field.
anthropicRequestBody(config, messages) ==
    LET systemMessage == findSystemMessage(messages)
        conversationMessages == SelectSeq(messages, LAMBDA m : m.role # "system")
    IN [model |-> config.model,
        messages |-> conversationMessages,
        system |-> IF systemMessage # <<>> THEN <<systemMessage[1].content>> ELSE <<>>]

\* The adapter of the Anthropic configuration is asked for a completion.
anthropicGenerateCompletion(messages) ==
    /\ requestBody = <<>>
    /\ requestBody' = <<[input |-> messages,
                         body |-> anthropicRequestBody(AnthropicClaude, messages)]>>
    /\ UNCHANGED <<previousActive, ctxVars, mgrVars, genVars, scored, today, templateCache, rendered, renders>>

InitLibVars ==
    /\ previousActive = <<>>
    /\ requestBody = <<>>
    /\ scored = <<>>
    /\ today = 1
    /\ templateCache = {}
    /\ rendered = <<>>
    /\ renders = 0

Init == InitCtxVars /\ InitMgrVars /\ InitGenVars /\ InitLibVars

SpecCtxSeq == Init /\ [][NextCtxSeq]_vars

\* A createVersion that overlaps an activateVersion, and nothing else.
NextCtxOverlap ==
    \E p \in CtxProcs :
        \/ BeginCreateVersion(p, {"create"})
        \/ BeginActivateVersion(p, {"activate"})
        \/ CtxStep(p)

SpecCtxOverlap == Init /\ [][NextCtxOverlap]_vars

\* Calls on the context store that overlap in any way.
NextCtx ==
    \E p \in CtxProcs :
        \/ BeginCreateVersion(p, {})
        \/ BeginActivateVersion(p, {})
        \/ CtxStep(p)

SpecCtx == Init /\ [][NextCtx]_vars

SpecMgrSeq == Init /\ [][NextMgrSeq]_vars

SpecMgr == Init /\ [][NextMgr]_vars

SpecMgrRestart == Init /\ [][NextMgrRestart]_vars

SpecSetActiveOverlap == Init /\ [][NextSetActiveOverlap]_vars

SpecGen == Init /\ [][NextGen]_vars

\* Versions are created and activated one call at a time, then a context is
\* resolved once.
NextResolve ==
    \/ \E p \in CtxProcs :
          \/ resolved = <<>> /\ BeginCreateVersion(p, {"create", "activate"})
          \/ resolved = <<>> /\ BeginActivateVersion(p, {"create", "activate"})
          \/ CtxStep(p)
    \/ \E projectId \in Projects, featureContext \in {<<>>} \cup {<<c>> : c \in FeatureContexts} :
          /\ resolved = <<>> /\ CtxInFlight = {}
          /\ resolveContext(projectId, featureContext)

SpecResolve == Init /\ [][NextResolve]_vars

\* The configurations are managed in the settings, then the page generates:
\* manager operations one at a time before the first submission, and the
\* page's handlers while the manager is at rest.
NextService ==
    \/ \E p \in Callers :
          \/ submissions = 0 /\ BeginAddConfiguration(p, TRUE)
          \/ submissions = 0 /\ BeginRemoveConfiguration(p, TRUE)
          \/ submissions = 0 /\ BeginSetActiveConfiguration(p, TRUE)
          \/ submissions = 0 /\ BeginGetAdapter(p, TRUE)
    \/ \E p \in MgrProcs : MgrStep(p)
    \/ \E pid \in Projects : MgrInFlight = {} /\ handleCreateProject(pid)
    \/ \E input \in FormInputs : MgrInFlight = {} /\ handleGenerateSpec(input)
    \/ fetchRejects
    \/ operationThrows

SpecService == Init /\ [][NextService]_vars

\* Descriptions are scored, and scored again with a vague word appended.
NextScore ==
    \/ \E input \in SpecInputs : scoreDescription(input)
    \/ \E separator \in {<<>>, <<" ">>}, word \in vagueWords :
          scoreWithAppended(separator, word)

SpecScore == Init /\ [][NextScore]_vars

\* Templates are rendered while the days pass.
NextTemplates ==
    \/ \E templateName \in TemplateNames, context \in TemplateContexts :
          render(templateName, context)
    \/ clearCache
    \/ dateChanges

SpecTemplates == Init /\ [][NextTemplates]_vars

\* The Anthropic adapter builds a request.
NextAnthropic ==
    \E messages \in MessageLists : anthropicGenerateCompletion(messages)

SpecAnthropic == Init /\ [][NextAnthropic]_vars

(***************************************************************************)
(* Claims about the versions of a project context.                         *)
(***************************************************************************)

\* C1 (as stated): once all calls have completed, a project that has any
\* version has exactly one active version, and a project without versions
\* has none.
C1_ExactlyOneActiveOncePopulated ==
    CtxInFlight = {} =>
        \A pid \in Projects :
            IF VersionCount(project_contexts, pid) > 0
            THEN ActiveCount(project_contexts, pid) = 1
            ELSE ActiveCount(project_contexts, pid) = 0

\* C1 (amended): once all calls, executed one at a time, have completed, a
\* project has exactly one active version if a createVersion with activate =
\* true or an activateVersion has completed for it, and none otherwise.
C1_OneActiveOnceActivated ==
    CtxInFlight = {} =>
        \A pid \in Projects :
            ActiveCount(project_contexts, pid) = (IF pid \in everActivated THEN 1 ELSE 0)

\* A project with three versions, the oldest of them re-activated.
C1_Witness ==
    /\ CtxInFlight = {}
    /\ \E pid \in Projects :
          /\ VersionCount(project_contexts, pid) = 3
          /\ ActiveCount(project_contexts, pid) = 1
          /\ project_contexts[1].project_id = pid
          /\ project_contexts[1].is_active = 1
          /\ \E p \in CtxProcs : ctxTask[p].result = "ok"

\* C6: no state of the context store, whatever the interleaving of a
\* createVersion(activate = true) with an activateVersion, holds two active
\* versions of one project.
C6_NeverTwoActiveVersions ==
    \A pid \in Projects : ActiveCount(project_contexts, pid) <= 1

(***************************************************************************)
(* Claims about the configuration manager.                                 *)
(***************************************************************************)

\* C2: after initialization, once every call and every store write has
\* completed, a manager that holds at least one configuration has an active id
\* that is one of its configurations, and the store flags exactly that id's
\* record, and no other, as active.
C2_OneActiveMirroredInStore ==
    (initialized /\ MgrInFlight = {} /\ Len(configs) >= 1) =>
        /\ activeConfigId \in ConfigKeys(configs)
        /\ ActiveRecordIds(llm_configs) = {activeConfigId}

\* C3: the load of the configurations from the store is started at most once
\* per manager, whatever the interleaving of the callers with the
\* initialization the constructor started.
C3_LoadStartedAtMostOnce == loadsStarted <= 1

\* The store writes of a setActiveConfiguration call.
SetActiveStoreSteps == {"sa_list", "upd_get", "deact_read", "deact_put", "upd_put"}

\* C4: while a setActiveConfiguration for a known id is running, with no
\* other call or store write in flight, and exactly one record was flagged
\* active before the call, the store never shows zero or several active
\* records.
C4_OneActiveRecordDuringSetActive ==
    \A p \in Callers :
        (/\ mgrTask[p].op = "setActiveConfiguration"
         /\ mgrTask[p].pc \in SetActiveStoreSteps
         /\ MgrInFlight = {p}
         /\ Cardinality(mgrTask[p].preActiveRecords) = 1)
        => Cardinality(ActiveRecordIds(llm_configs)) = 1

\* C5: when setActiveConfiguration, past its initialization, finds that its
\* id is not a key of the configuration map, the call ends with the
\* configuration-not-found error, and the active id in memory and the records
\* of the store are left as they were.
C5_UnknownIdFailsAndChangesNothing ==
    [][\A p \in Callers :
          (/\ mgrTask[p].op = "setActiveConfiguration"
           /\ mgrTask[p].pc = "sa_check"
           /\ mgrTask[p].id \notin ConfigKeys(configs)
           /\ mgrTask'[p] # mgrTask[p])
          => /\ mgrTask'[p].pc = "idle"
             /\ mgrTask'[p].result = "ConfigurationNotFound"
             /\ activeConfigId' = activeConfigId
             /\ configs' = configs
             /\ llm_configs' = llm_configs]_vars

\* A setActiveConfiguration with an unknown id has failed on a manager that
\* has an active configuration whose record the store flags as active.
C5_Witness ==
    /\ \E p \in Callers :
          /\ mgrTask[p].op = "setActiveConfiguration"
          /\ mgrTask[p].pc = "idle"
          /\ mgrTask[p].result = "ConfigurationNotFound"
    /\ MgrInFlight = {}
    /\ activeConfigId # NullId
    /\ ActiveRecordIds(llm_configs) = {activeConfigId}

(***************************************************************************)
(* Claims about the generation flow and the completion calls.              *)
(***************************************************************************)

\* C7: when a handler has ended because generateSpec failed, the error it
\* logged is 'Failed to generate specification: ' followed by the message of
\* the cause, no spec_outputs record exists for the request's input, and no
\* spec is displayed.
C7_FailedGenerateSpecLeavesNothing ==
    (flow.pc = "idle" /\ flow.failedOp = "generateSpec") =>
        /\ Len(flow.cause) > 0
        /\ flow.error = <<"Failed to generate specification: ">> \o flow.cause
        /\ OutputsOfInput(spec_outputs, flow.inputId) = {}
        /\ ui.specOutput = <<>>

\* The second submission failed on a schema violation after the first one had
\* stored and displayed a spec.
C7_Witness ==
    /\ flow.pc = "idle"
    /\ flow.failedOp = "generateSpec"
    /\ flow.cause = <<"ZodError">>
    /\ flow.inputId = 2
    /\ Len(spec_outputs) = 1
    /\ ui.specOutput = <<>>

C9_CallBoundedByTimeout ==
    CallInFlight => call.elapsed <= TimeoutTicks

\* C10: a completion call has sent at most one request, and a call that has
\* read the body of a non-2xx response has failed with an error that carries
\* the status and the body of that response.
C10_AtMostOneRequest ==
    /\ call.requests <= 1
    /\ call.errorText # <<>> =>
          /\ call.stage = "failed"
          /\ ~call.response[1].ok
          /\ call.error = <<ApiErrorPrefix(call.kind), call.response[1].status, " ",
                            call.response[1].statusText, " - ", call.errorText[1]>>

\* An LM Studio completion has failed on a 500 response after one request.
C10_Witness ==
    /\ call.kind = "lmstudio"
    /\ call.stage = "failed"
    /\ call.requests = 1
    /\ call.error = <<"LM Studio API error: ", "500", " ", "Internal Server Error", " - ",
                      "overloaded">>

(***************************************************************************)
(* Claims about the configuration a generation request is sent with.       *)
(***************************************************************************)

\* C11: while the manager is at rest with an active configuration, a request
\* that generateSpec, generateClarifyingQuestions or refineSpec has in flight
\* goes to the url and names the model of the active configuration.
C11_RequestsUseActiveConfiguration ==
    (/\ CallInFlight /\ call.kind = "callLLM"
     /\ MgrInFlight = {}
     /\ hasConfig(configs, activeConfigId))
    => LET active == configs[getConfigOf(configs, activeConfigId)].config
       IN call.request = <<requestOf(active.provider, active)>>

(***************************************************************************)
(* Claims about what callLLM makes of a response text.                     *)
(***************************************************************************)

\* What callLLM has made of the non-empty text it received, where the summary
\* of an extracted object is the trimmed text before its "{", or the default
\* summary when that text is empty and defaultWhenEmpty is set: the whole
\* trimmed text if it parses, else the slice from the first "{" to the last
\* "}", else the no-JSON error; the parsed value is validated by the schema.
ResponseParsedAs(defaultWhenEmpty) ==
    LET c == call.content[1]
        opens == {i \in 1..Len(c) : c[i] = "{"}
        closes == {i \in 1..Len(c) : c[i] = "}"}
        first == CHOOSE i \in opens : \A j \in opens : i <= j
        last == CHOOSE i \in closes : \A j \in closes : j <= i
        before == trim(SubSeq(c, 1, first - 1))
        failsWith(error) == call.stage = "failed" /\ call.error = error
        yields(parsed) ==
            IF schemaParse(call.schema, parsed) = <<>> THEN failsWith(<<"ZodError">>)
            ELSE /\ call.stage = "ok"
                 /\ call.result[1].json = schemaParse(call.schema, parsed)[1]
    IN IF JSONparse(trim(c)) # <<>> THEN yields(JSONparse(trim(c))[1])
       ELSE IF opens = {} \/ closes = {} \/ last < first
       THEN failsWith(<<"No valid JSON found in LLM response">>)
       ELSE IF JSONparse(SubSeq(c, first, last)) = <<>>
       THEN failsWith(<<"Failed to parse LLM response as JSON: ", "SyntaxError">>)
       ELSE /\ yields(JSONparse(SubSeq(c, first, last))[1])
            /\ call.stage = "ok" =>
                  call.result[1].summary =
                      IF before = <<>> /\ defaultWhenEmpty THEN DefaultSummary ELSE before

\* C12 (as stated): the text before the first "{" of an extracted object,
\* trimmed, is the summary, whatever it is.
C12_TextBeforeJsonIsSummary ==
    (call.kind = "callLLM" /\ call.content # <<>> /\ call.content[1] # <<>>)
        => ResponseParsedAs(FALSE)

\* C12 (amended): the text before the first "{" of an extracted object,
\* trimmed, is the summary when it is not empty; when nothing but white space
\* precedes the "{" the summary is the default one.
C12_NonEmptyTextBeforeJsonIsSummary ==
    (call.kind = "callLLM" /\ call.content # <<>> /\ call.content[1] # <<>>)
        => ResponseParsedAs(TRUE)

\* generateSpec has received an object followed by prose and returned it with
\* the default summary.
C12_Witness ==
    /\ flow.op = "generateSpec"
    /\ call.content = << <<"{", "specA", "}", " ", "done.">> >>
    /\ call.stage = "ok"
    /\ call.result[1].json = JsonValue("specA")
    /\ call.result[1].summary = <<"Generated specification">>

(***************************************************************************)
(* Claims about the refinement of a spec.                                  *)
(***************************************************************************)

\* The step in which refineSpec has returned and handleAnswersProvided shows
\* the merged spec, which holds the fields of the object the model answered
\* with (those the spec schema knows, if schemaFieldsOnly) and, for every
\* other field, the original spec's value.
RefinementMerged(schemaFieldsOnly) ==
    (flow.pc = "ans_refine" /\ call.stage = "ok" /\ flow'.pc = "idle")
    => LET original == flow.specResponse[1].json
           response == JSONparse(matchBraces(call.content[1])[1].text)[1]
           merged == ui'.specOutput[1]
           replaced == IF schemaFieldsOnly THEN (DOMAIN response) \cap SpecFields
                       ELSE DOMAIN response
       IN /\ \A f \in replaced :
                f \in DOMAIN merged /\ merged[f] = response[f]
          /\ \A f \in (DOMAIN original) \ DOMAIN response :
                f \in DOMAIN merged /\ merged[f] = original[f]
          /\ DOMAIN merged = (DOMAIN original) \cup replaced

\* C13 (as stated): the merged spec holds every top-level field of the
\* model's partial response with the response's value, and every other field
\* with the original's value.
C13_EveryResponseFieldReplaces ==
    [][RefinementMerged(FALSE)]_vars

\* C13 (amended): the merged spec holds every top-level field of the model's
\* partial response that the spec schema knows with the response's value,
\* holds no field the schema does not know, and holds every other field with
\* the original's value.
C13_EverySchemaFieldOfResponseReplaces ==
    [][RefinementMerged(TRUE)]_vars

\* The answers were provided, the spec was generated and refined with a
\* response that names only the tasks: the tasks are replaced, the story kept.
C13_Witness ==
    /\ flow.handler = "answers"
    /\ flow.pc = "idle"
    /\ flow.opsInvoked = <<"generateSpec", "refineSpec">>
    /\ flow.specResponse # <<>>
    /\ flow.specResponse[1].json = [story |-> "storyA", tasks |-> "tasksA"]
    /\ ui.specOutput = << [story |-> "storyA", tasks |-> "tasksB"] >>

(***************************************************************************)
(* Claims about a response that is exactly a schema-valid JSON object.     *)
(***************************************************************************)

\* callLLM has received exactly the JSON text of an object that is valid
\* under the schema of its operation, and has returned a result that holds
\* the object's fields (those the schema defines, if schemaFieldsOnly) with
\* the object's values and apart from them only defaulted fields with their
\* defaults.
ValidObjectReturned(schemaFieldsOnly) ==
    \A token \in JsonObjects :
        LET object == JsonValue(token)
            required == CASE call.schema = "SpecOutputSchema" -> SpecFields \ DOMAIN SpecDefaults
                          [] call.schema = "ClarifyingQuestionsSchema" -> QuestionFields
                          [] OTHER -> {}
            defaulted == IF call.schema = "SpecOutputSchema" THEN DOMAIN SpecDefaults ELSE {}
            kept == IF schemaFieldsOnly
                    THEN (DOMAIN object) \cap (IF call.schema = "ClarifyingQuestionsSchema"
                                                THEN QuestionFields ELSE SpecFields)
                    ELSE DOMAIN object
        IN (/\ call.kind = "callLLM"
            /\ call.content = << <<"{", token, "}">> >>
            /\ required \subseteq DOMAIN object)
           => /\ call.stage = "ok"
              /\ DOMAIN call.result[1].json = kept \cup defaulted
              /\ \A f \in DOMAIN call.result[1].json :
                    call.result[1].json[f] =
                        IF f \in kept THEN object[f] ELSE SpecDefaults[f]

\* C14 (as stated): the result equals the object, apart from omitted optional
\* fields filled with their defaults.
C14_ValidObjectRoundTrips ==
    ValidObjectReturned(FALSE)

\* C14 (amended): the result equals the object without the fields the schema
\* does not define, apart from omitted optional fields filled with their
\* defaults.
C14_ValidObjectRoundTripsOnSchemaFields ==
    ValidObjectReturned(TRUE)

\* generateSpec has received an object with a story and no tasks and returned
\* it with the default tasks.
C14_Witness ==
    /\ flow.op = "generateSpec"
    /\ call.content = << <<"{", "specStoryOnly", "}">> >>
    /\ call.stage = "ok"
    /\ call.result[1].json = [story |-> "storyA", tasks |-> "[]"]

(***************************************************************************)
(* Claims about the configurations the manager holds.                      *)
(***************************************************************************)

\* C15: the store was empty when the manager was constructed and the manager
\* has been used at most to ask for an adapter; once the initialization and
\* the store writes it started have completed, the manager holds the default
\* configuration 'lmstudio-local' and no other, that id is the active id, and
\* the store holds one record, which is the default's and is flagged active.
C15_DefaultConfigurationOnFirstUse ==
    (/\ MgrInFlight = {}
     /\ initialized
     /\ opsBegun <= 1
     /\ mgrTask["u1"].op \in {"none", "getAdapter"}
     /\ mgrTask["u2"].op = "none")
    => /\ configs = <<[id |-> "lmstudio-local", config |-> LMStudioLocal]>>
       /\ activeConfigId = "lmstudio-local"
       /\ llm_configs = <<[id |-> "lmstudio-local", config_json |-> LMStudioLocal,
                            is_active |-> 1]>>

\* The manager was first used for an adapter while the constructor's
\* initialization was under way, both loaded the empty store, and everything
\* has completed with the default configuration stored as the active one.
C15_Witness ==
    /\ MgrInFlight = {}
    /\ initialized
    /\ opsBegun = 1
    /\ mgrTask["u1"].op = "getAdapter"
    /\ loadsStarted = 2
    /\ activeConfigId = "lmstudio-local"
    /\ ActiveRecordIds(llm_configs) = {"lmstudio-local"}

\* A caller's removeConfiguration returns after it has found the removed id
\* to be the active one: directly, when no configuration remains, or when the
\* setActiveConfiguration of the first remaining one has returned.
RemovalOfActiveCompletes(p) ==
    /\ mgrTask[p].op = "removeConfiguration"
    /\ \/ mgrTask[p].pc = "rm_promote" /\ activeConfigId = mgrTask[p].id
       \/ mgrTask[p].pc \in {"sa_check", "sa_list", "upd_get", "deact_read", "deact_put",
                              "upd_put"}
    /\ mgrTask'[p].pc = "idle"

\* C16: when a removeConfiguration of the active configuration completes and
\* nothing else is in flight, the active id is one of the remaining
\* configurations and its record is the one flagged active in the store, or,
\* when no configuration remains, there is no active id.
C16_RemovingActivePromotesRemaining ==
    [][\A p \in Callers :
          (RemovalOfActiveCompletes(p) /\ MgrInFlight' = {})
          => IF Len(configs') > 0
             THEN /\ hasConfig(configs', activeConfigId')
                  /\ ActiveRecordIds(llm_configs') = {activeConfigId'}
             ELSE activeConfigId' = NullId]_vars

(***************************************************************************)
(* Claims about the resolution of a context.                               *)
(***************************************************************************)

\* C17: a resolveContext call without a feature context, or with one whose
\* inherit_from_project is false, has returned the stored context of the
\* project's active version, and the default context when the project has no
\* active version.
C17_WithoutInheritanceActiveContextIsReturned ==
    (/\ resolved # <<>>
     /\ \/ resolved[1].featureContext = <<>>
        \/ ~resolved[1].featureContext[1].inherit_from_project)
    => LET actives == {i \in 1..Len(project_contexts) :
                          /\ project_contexts[i].project_id = resolved[1].project_id
                          /\ project_contexts[i].is_active = 1}
       IN IF actives = {}
          THEN resolved[1].result = DEFAULT_PROJECT_CONTEXT
          ELSE \E i \in actives :
                  resolved[1].result = contextJson(project_contexts[i].context_json)

\* A feature context that does not inherit, and names a stakeholder and an
\* override, was resolved for a project whose active version holds ctxA.
C17_Witness ==
    /\ resolved # <<>>
    /\ resolved[1].featureContext # <<>>
    /\ ~resolved[1].featureContext[1].inherit_from_project
    /\ \E i \in 1..Len(project_contexts) :
          /\ project_contexts[i].project_id = resolved[1].project_id
          /\ project_contexts[i].is_active = 1
          /\ project_contexts[i].context_json = "ctxA"
    /\ resolved[1].result.stakeholders.array =
          <<[name |-> "A", role |-> "PO", interests |-> <<"scope">>]>>
    /\ resolved[1].result.envs.array = <<"local", "dev", "test", "prod">>

RECURSIVE OverridesWin(_, _, _)
OverridesWin(result, target, source) ==
    /\ DOMAIN result = (DOMAIN target) \cup (DOMAIN source)
    /\ \A key \in (DOMAIN target) \ (DOMAIN source) : result[key] = target[key]
    /\ \A key \in DOMAIN source :
          IF "object" \in DOMAIN source[key]
          THEN /\ "object" \in DOMAIN result[key]
               /\ OverridesWin(result[key].object,
                               IF key \in DOMAIN target THEN target[key].object ELSE <<>>,
                               source[key].object)
          ELSE result[key] = source[key]

\* C19: a resolveContext call that inherits has returned the context it had
\* after the stakeholder, constraint and non-functional merges with the
\* overrides merged over it: arrays and scalars of the overrides replace,
\* objects are merged key by key, other keys keep their merged values.
C19_OverridesAreMergedLast ==
    (/\ resolved # <<>>
     /\ resolved[1].featureContext # <<>>
     /\ resolved[1].featureContext[1].inherit_from_project)
    => OverridesWin(resolved[1].result, resolved[1].resolvedContext,
                    resolved[1].featureContext[1].overrides)

\* The overrides hold a glossary with a new meaning of API and the new term
\* KPI, and a scalar for envs; the project's glossary holds API and SLA: the
\* result's glossary holds the three terms, API with the new meaning, and
\* envs is the scalar.
C19_Witness ==
    /\ resolved # <<>>
    /\ resolved[1].featureContext # <<>>
    /\ DOMAIN resolved[1].featureContext[1].overrides = {"glossary", "envs"}
    /\ resolved[1].projectDefaults = contextJson("ctxB")
    /\ resolved[1].result.glossary =
          [object |-> [API |-> [scalar |-> "endpoint"], SLA |-> [scalar |-> "agreement"],
                       KPI |-> [scalar |-> "indicator"]]]
    /\ resolved[1].result.envs = [scalar |-> "prod"]
    /\ resolved[1].result.constraints = [array |-> <<"c2", "c1">>]

(***************************************************************************)
(* Claim about the numbering of versions.                                  *)
(***************************************************************************)

\* C20: a step that adds a version gives it the number one above the highest
\* version number of its project, or 1 when the project has no version, and
\* no step changes the context or the version number of a stored version or
\* deletes one.
C20_VersionsAreNumberedAndAppendOnly ==
    [][/\ Len(project_contexts') >= Len(project_contexts)
       /\ \A i \in 1..Len(project_contexts) :
             /\ project_contexts'[i].id = project_contexts[i].id
             /\ project_contexts'[i].project_id = project_contexts[i].project_id
             /\ project_contexts'[i].context_json = project_contexts[i].context_json
             /\ project_contexts'[i].version = project_contexts[i].version
       /\ \A i \in (Len(project_contexts) + 1)..Len(project_contexts') :
             LET existing == {project_contexts[j].version :
                                 j \in {k \in 1..Len(project_contexts) :
                                           project_contexts[k].project_id =
                                               project_contexts'[i].project_id}}
             IN project_contexts'[i].version =
                    IF existing = {} THEN 1
                    ELSE (CHOOSE v \in existing : \A w \in existing : w <= v) + 1
      ]_vars

(***************************************************************************)
(* Claims about the ambiguity score.                                       *)
(***************************************************************************)

\* C21: a description scored again with a word of the vague-word list
\* appended to it has a score that is not lower than its score before.
C21_AppendingVagueWordNeverLowersScore ==
    (scored # <<>> /\ scored[1].appended # <<>>)
    => scored[1].score >= scored[1].previous[1]

\* The word `word` stands in `text` between separators of `whitespace` (or
\* the ends of the text).
IsToken(text, word, whitespace) ==
    \E i \in 1..(Len(text) - Len(word) + 1) :
        /\ SubSeq(text, i, i + Len(word) - 1) = word
        /\ i = 1 \/ text[i - 1] \in whitespace
        /\ i + Len(word) - 1 = Len(text) \/ text[i + Len(word)] \in whitespace

\* The score of the description scored last is the capped sum of its parts,
\* in hundredths, with the pronouns counted as tokens between `whitespace`;
\* it lies between 0 and 100 and is 0 for a description of 200 characters or
\* more with a digit, no vague word, no pronoun and both context lists.
ScoreIsSumOfParts(whitespace) ==
    scored # <<>> =>
        LET text == scored[1].description
            lowered == toLowerCase(text)
            L == IF Len(text) < 100 THEN 30 ELSE IF Len(text) < 200 THEN 10 ELSE 0
            D == IF \E i \in 1..Len(text) : text[i] \in Digits THEN 0 ELSE 20
            V == Cardinality({w \in vagueWords :
                                 \E i \in 1..Len(lowered) :
                                     /\ i + Len(w) - 1 <= Len(lowered)
                                     /\ SubSeq(lowered, i, i + Len(w) - 1) = w})
            P == Cardinality({w \in pronouns : IsToken(lowered, w, whitespace)})
            C == (IF scored[1].stakeholders = <<>> THEN 10 ELSE 0)
                 + (IF scored[1].constraints = <<>> THEN 10 ELSE 0)
            sum == L + D + 10 * V + 5 * P + C
        IN /\ scored[1].score = IF sum > 100 THEN 100 ELSE sum
           /\ scored[1].score \in 0..100
           /\ (Len(text) >= 200 /\ D = 0 /\ V = 0 /\ P = 0 /\ C = 0) => scored[1].score = 0

\* C22: the score is min(1.0, L + D + 0.1*V + 0.05*P + C) with the pronouns
\* counted as whole tokens of the description split on whitespace; it lies in
\* [0, 1] and is 0 for a long description with a digit, no vague word, no
\* pronoun and full context.
C22_ScoreIsCappedSumOfParts ==
    ScoreIsSumOfParts({" ", "\t", "\n"})

(***************************************************************************)
(* Claims about the template engine.                                       *)
(***************************************************************************)

\* In the last rendering, every placeholder of the template whose function
\* is in `forms`, whose variable the context does not define and which is
\* not a reserved date stands in the result as it is written in the template.
MissingVariablesKept(forms) ==
    (rendered # <<>> /\ rendered[1].templateName \in DOMAIN templates)
    => LET template == templates[rendered[1].templateName] IN
       /\ rendered[1].error = <<>>
       /\ rendered[1].result # <<>>
       /\ Len(rendered[1].result[1]) = Len(template)
       /\ \A i \in 1..Len(template) :
             (/\ "match" \in DOMAIN template[i]
              /\ template[i].fn \in forms
              /\ template[i].path[1] \notin DOMAIN rendered[1].context)
             => rendered[1].result[1][i] = [text |-> template[i].match]

\* C23: rendering an existing template does not fail, and every placeholder
\* of the form {{name}} or {{JSON.stringify(name)}} whose variable the
\* context does not define stands in the output as written in the template.
C23_MissingVariablesStayPlaceholders ==
    MissingVariablesKept({"variable", "JSON.stringify"})

\* C30: the text a render call has returned is the interpolation of the
\* template with the call's context on the day of the call.
C30_RenderReturnsFreshInterpolation ==
    (rendered # <<>> /\ rendered[1].result # <<>>)
    => rendered[1].result[1] =
          interpolate(templates[rendered[1].templateName], rendered[1].context,
                      rendered[1].day)

(***************************************************************************)
(* Claim about the request of the Anthropic adapter.                       *)
(***************************************************************************)

\* The system field of the last request is the content of the first
\* system-role message of its input, and its messages are the input messages
\* without that message (or without every system-role message), in their
\* order and unchanged.
RequestKeepsMessages(onlyFirstSystemLeaves) ==
    requestBody # <<>> =>
        LET input == requestBody[1].input
            body == requestBody[1].body
            systems == {i \in 1..Len(input) : input[i].role = "system"}
            first == IF systems = {} THEN 0
                     ELSE CHOOSE i \in systems : \A j \in systems : i <= j
            others == IF onlyFirstSystemLeaves
                      THEN (1..Len(input)) \ {first}
                      ELSE (1..Len(input)) \ systems
            position(i) == Cardinality({j \in others : j <= i})
        IN /\ first # 0 => body.system = <<input[first].content>>
           /\ Len(body.messages) = Cardinality(others)
           /\ \A i \in others : body.messages[position(i)] = input[i]

\* C29: the system field of the Anthropic request is the content of the
\* first system-role message of the input, and the request's messages are
\* all the other input messages, in their order and unchanged.
C29_FirstSystemMessageRelocated ==
    RequestKeepsMessages(TRUE)

(***************************************************************************)
(* Claims about the page at rest.                                          *)
(***************************************************************************)

\* C24: a handler of the page that has run and has returned has left a
\* specification on display, or questions on display (with the answer and
\* skip actions the questions component offers), or has failed; in
\* particular the questions are on display whenever the gate has fired and
\* generateClarifyingQuestions has succeeded.
C24_FlowRestsInDoneFailedOrPending ==
    (flow.handler # "none" /\ flow.pc = "idle")
    => \/ ui.specOutput # <<>>
       \/ Len(ui.clarifyingQuestions) > 0
       \/ flow.error # <<>>

\* C27: whenever a handler has returned with a specification on display,
\* the store holds an output record of that handler's input and the latest
\* such record holds the specification on display.
C27_DisplayedSpecIsPersistedSpec ==
    (flow.handler # "none" /\ flow.pc = "idle" /\ ui.specOutput # <<>>)
    => LET records == OutputsOfInput(spec_outputs, flow.inputId) IN
       /\ records # {}
       /\ spec_outputs[CHOOSE i \in records : \A j \in records : j <= i].output_json
              = ui.specOutput[1]

(***************************************************************************)
(* Claim about the active configuration across instances.                  *)
(***************************************************************************)

\* C26: a manager instance constructed on the store that a previous
\* instance left at rest reports, once it is initialized and its store
\* writes have completed, the active id the previous instance reported.
C26_ActiveConfigurationSurvivesRestart ==
    (previousActive # <<>> /\ initialized /\ MgrInFlight = {})
    => reportedActive(configs, activeConfigId) = previousActive[1]

(***************************************************************************)
(* Claim about overlapping activations.                                    *)
(***************************************************************************)

\* C25: when the setActiveConfiguration calls of the two callers, for the
\* two different ids the manager holds, have both returned without an error
\* and nothing is in flight, the store holds exactly one record flagged
\* active, and it is the record of the id the manager holds as active.
C25_OverlappingSetActiveLeaveOneActive ==
    (/\ previousActive # <<>>
     /\ MgrInFlight = {}
     /\ \A p \in Callers :
           mgrTask[p].op = "setActiveConfiguration" /\ mgrTask[p].result = "ok")
    => ActiveRecordIds(llm_configs) = {activeConfigId}

(***************************************************************************)
(* Claim about the version numbers of a project.                           *)
(***************************************************************************)

\* C28: no two stored versions of one project have the same version number.
C28_VersionNumbersAreUnique ==
    \A i, j \in 1..Len(project_contexts) :
        (/\ i # j
         /\ project_contexts[i].project_id = project_contexts[j].project_id)
        => project_contexts[i].version # project_contexts[j].version

====
